---- MODULE Spec2Model ----
(***************************************************************************)
(* markdown-render: a command-line tool that renders Markdown as HTML.     *)
(*                                                                         *)
(* The model follows src/src/presets.ts, which holds the preset catalog    *)
(* (lines 1-122) and the command-line program that uses it (lines          *)
(* 124-557).  src/src/markdown-render.ts is the same program before the    *)
(* presets were added; where the two agree the definitions below model     *)
(* both.                                                                   *)
(*                                                                         *)
(* Representation of JavaScript strings                                    *)
(*   - a multi-line text (CSS, help text) is the sequence of its lines,    *)
(*     exactly what text.split("\n") returns: "a\nb\n" is <<"a","b","">>   *)
(*     and the empty string is <<"">>;                                     *)
(*   - a command-line token, a Markdown source and a path are sequences    *)
(*     of one-character strings, so that startsWith, split, toLowerCase    *)
(*     and the regular expressions are computed character by character;    *)
(*   - a one-line message is the sequence of the pieces its template       *)
(*     literal is made of.                                                 *)
(***************************************************************************)
EXTENDS Integers, Sequences, FiniteSets, TLC

VARIABLES
    call,      \* library harness: the function applied and its arguments
    ret,       \* library harness: the value returned ("pending" before the call)
    argv,      \* process.argv.slice(2): a sequence of tokens
    env,       \* process.env, each variable as read so far
    pc,        \* where main() stands
    parsedArgs,\* the ParsedArgs main() holds once parseArguments returned
    locals,    \* the other locals of main()
    templateCache, \* the module variable templateCache
    exitCode,  \* process.exitCode (0 while unset)
    events     \* every write and every I/O call of the run, in order

libVars == <<call, ret>>

runVars ==
    <<argv, env, pc, parsedArgs, locals, templateCache, exitCode, events>>

vars ==
    <<call, ret, argv, env, pc, parsedArgs, locals, templateCache, exitCode,
      events>>

-----------------------------------------------------------------------------
(* Texts as sequences of lines.                                            *)

EmptyText == <<"">>

RECURSIVE SumLen(_)
SumLen(lines) ==
    IF lines = <<>> THEN 0 ELSE Len(Head(lines)) + SumLen(Tail(lines))

\* String.prototype.length of a text: its characters and its newlines.
TextLength(t) == SumLen(t) + (Len(t) - 1)

\* a + b on two texts: the last line of a continues with the first line of b.
TextConcat(a, b) ==
    SubSeq(a, 1, Len(a) - 1) \o <<a[Len(a)] \o b[1]>> \o Tail(b)

\* The one-character text "\n".
Newline == <<"", "">>

\* Array.prototype.join(sep) on texts.
RECURSIVE JoinText(_, _)
JoinText(chunks, sep) ==
    IF chunks = <<>> THEN EmptyText
    ELSE IF Len(chunks) = 1 THEN chunks[1]
    ELSE TextConcat(TextConcat(chunks[1], sep), JoinText(Tail(chunks), sep))

\* The ?? operator on an optional field of a record.
Nullish(rec, field, default) ==
    IF field \in DOMAIN rec THEN rec[field] ELSE default

-----------------------------------------------------------------------------
(* The preset catalog: presets.ts lines 26-122.                            *)

GeistExtraCSS ==
    << "    h1, h2, h3, h4, h5, h6 {",
       "      letter-spacing: -0.01em;",
       "    }",
       "    a {",
       "      text-decoration: none;",
       "    }",
       "    a:hover, a:focus {",
       "      text-decoration: underline;",
       "    }",
       "    img {",
       "      border-radius: 0.75rem;",
       "    }",
       "    blockquote {",
       "      border-left-width: 0.25rem;",
       "    }",
       "" >>

InterExtraCSS ==
    << "    h1, h2, h3, h4, h5, h6 {",
       "      font-family: var(--font-heading);",
       "      font-weight: 600;",
       "    }",
       "" >>

GeistProse ==
    [ id |-> "geist-prose",
      label |-> "Geist Prose",
      description |-> "Geist Sans & Mono with Tailwind prose-inspired colors",
      fontImports |->
        << "<link rel=\"preconnect\" href=\"https://fonts.googleapis.com\">",
           "<link rel=\"preconnect\" href=\"https://fonts.gstatic.com\" crossorigin>",
           "<link href=\"https://fonts.googleapis.com/css2?family=Geist:wght@300..800&family=Geist+Mono:wght@400..700&display=swap\" rel=\"stylesheet\">" >>,
      fontFamily |-> "\"Geist\", -apple-system, BlinkMacSystemFont, \"Segoe UI\", sans-serif",
      headingFontFamily |-> "\"Geist\", -apple-system, BlinkMacSystemFont, \"Segoe UI\", sans-serif",
      monoFontFamily |-> "\"Geist Mono\", SFMono-Regular, Menlo, Monaco, Consolas, \"Liberation Mono\", monospace",
      palette |->
        [ light |->
            [ background |-> "linear-gradient(135deg, #f8fafc 0%, #f1f5f9 100%)",
              foreground |-> "#0f172a",
              codeBackground |-> "#e2e8f0",
              codeForeground |-> "#0f172a",
              border |-> "#cbd5f5",
              link |-> "#2563eb",
              linkHover |-> "#1d4ed8" ],
          dark |->
            [ background |-> "linear-gradient(160deg, #0b1120 0%, #111827 45%, #020617 100%)",
              foreground |-> "#e2e8f0",
              codeBackground |-> "#1e293b",
              codeForeground |-> "#e2e8f0",
              border |-> "#334155",
              link |-> "#93c5fd",
              linkHover |-> "#bfdbfe" ] ],
      extraCSS |-> GeistExtraCSS ]

InterUi ==
    [ id |-> "inter-ui",
      label |-> "Inter UI",
      description |-> "Inter with neutral slate prose colors",
      fontImports |->
        << "<link rel=\"preconnect\" href=\"https://fonts.googleapis.com\">",
           "<link rel=\"preconnect\" href=\"https://fonts.gstatic.com\" crossorigin>",
           "<link href=\"https://fonts.googleapis.com/css2?family=Inter:wght@300;400;500;600;700&display=swap\" rel=\"stylesheet\">" >>,
      fontFamily |-> "\"Inter\", -apple-system, BlinkMacSystemFont, \"Segoe UI\", sans-serif",
      headingFontFamily |-> "\"Inter\", -apple-system, BlinkMacSystemFont, \"Segoe UI\", sans-serif",
      monoFontFamily |-> "SFMono-Regular, Menlo, Monaco, Consolas, \"Liberation Mono\", monospace",
      palette |->
        [ light |->
            [ background |-> "#f8fafc",
              foreground |-> "#0f172a",
              codeBackground |-> "#e2e8f0",
              codeForeground |-> "#0f172a",
              border |-> "#cbd5f5",
              link |-> "#2563eb",
              linkHover |-> "#1d4ed8" ],
          dark |->
            [ background |-> "#020617",
              foreground |-> "#e2e8f0",
              codeBackground |-> "#1e293b",
              codeForeground |-> "#e2e8f0",
              border |-> "#334155",
              link |-> "#93c5fd",
              linkHover |-> "#bfdbfe" ] ],
      extraCSS |-> InterExtraCSS ]

PRESETS == <<GeistProse, InterUi>>

\* The catalog as it would be listed from its last preset to its first.
listPresets_lastFirst ==
    [i \in 1..Len(PRESETS) |-> PRESETS[Len(PRESETS) + 1 - i]]

listPresets == PRESETS

\* What a function returns when it returns undefined.
Undefined == [undefined |-> TRUE]

\* Array.prototype.find: the first element that satisfies the test.
ArrayFind(arr, Test(_)) ==
    IF \E i \in 1..Len(arr) : Test(arr[i])
    THEN arr[CHOOSE i \in 1..Len(arr) :
                 Test(arr[i]) /\ \A j \in 1..(i - 1) : ~Test(arr[j])]
    ELSE Undefined

\* The test as it would be if an empty id stood for the default preset.
IdMatches_emptyIsDefault(preset, id) ==
    preset.id = id \/ (id = "" /\ preset.id = "geist-prose")

\* The test resolvePreset hands to find: preset.id === id.
IdMatches(preset, id) == preset.id = id

resolvePreset(id) ==
    ArrayFind(PRESETS, LAMBDA preset : IdMatches(preset, id))

-----------------------------------------------------------------------------
(* The style compositor: presets.ts lines 288-409.                         *)

SHARED_STYLES ==
    << "    body {",
       "      margin: 0 auto;",
       "      max-width: 56rem;",
       "      padding: 3rem 1rem 4rem;",
       "      background: var(--bg);",
       "      color: var(--fg);",
       "    }",
       "    h1, h2, h3, h4, h5, h6 {",
       "      line-height: 1.3;",
       "      margin-top: 2.4rem;",
       "      margin-bottom: 1rem;",
       "      font-weight: 650;",
       "    }",
       "    h1 { font-size: 2.5rem; }",
       "    h2 { font-size: 2rem; }",
       "    h3 { font-size: 1.5rem; }",
       "    h4 { font-size: 1.25rem; }",
       "    p, li {",
       "      margin-top: 0.75rem;",
       "      margin-bottom: 0.75rem;",
       "      font-size: 1rem;",
       "    }",
       "    a {",
       "      color: var(--link);",
       "      text-decoration: underline;",
       "      text-decoration-thickness: 2px;",
       "    }",
       "    a:hover, a:focus {",
       "      color: var(--link-hover);",
       "    }",
       "    pre {",
       "      background: var(--code-bg);",
       "      color: var(--code-fg);",
       "      padding: 1rem;",
       "      overflow: auto;",
       "      border-radius: 0.5rem;",
       "      border: 1px solid var(--border);",
       "    }",
       "    code {",
       "      font-family: var(--font-mono);",
       "      background: var(--code-bg);",
       "      color: var(--code-fg);",
       "      padding: 0.15rem 0.35rem;",
       "      border-radius: 0.35rem;",
       "    }",
       "    pre code {",
       "      padding: 0;",
       "      background: transparent;",
       "    }",
       "    blockquote {",
       "      margin: 1.5rem 0;",
       "      padding: 0.75rem 1rem;",
       "      border-left: 4px solid var(--border);",
       "      background: var(--code-bg);",
       "      color: var(--fg);",
       "      border-radius: 0 0.5rem 0.5rem 0;",
       "    }",
       "    table {",
       "      border-collapse: collapse;",
       "      width: 100%;",
       "      margin: 1.5rem 0;",
       "    }",
       "    th, td {",
       "      border: 1px solid var(--border);",
       "      padding: 0.5rem 0.75rem;",
       "      text-align: left;",
       "    }",
       "    img, video {",
       "      max-width: 100%;",
       "      height: auto;",
       "      border-radius: 0.4rem;",
       "    }",
       "" >>

GenericMonoStack ==
    "SFMono-Regular, Menlo, Monaco, Consolas, \"Liberation Mono\", monospace"

\* basePalette as it would be if it told only light apart: auto starts dark.
basePalette_darkUnlessLight(theme, preset) ==
    IF theme = "light" THEN preset.palette.light ELSE preset.palette.dark

basePalette(theme, preset) ==
    IF theme = "dark" THEN preset.palette.dark ELSE preset.palette.light

\* The heading font as it would be if it fell back to the monospace stack.
headingFont_fallsBackToMono(preset) ==
    Nullish(preset, "headingFontFamily", GenericMonoStack)

headingFont(preset) == Nullish(preset, "headingFontFamily", preset.fontFamily)

monoFont(preset) == Nullish(preset, "monoFontFamily", GenericMonoStack)

rootBlock(theme, preset, colorScheme) ==
    LET base == basePalette(theme, preset) IN
    << "    :root {",
       "      color-scheme: " \o colorScheme \o ";",
       "      --bg: " \o base.background \o ";",
       "      --fg: " \o base.foreground \o ";",
       "      --code-bg: " \o base.codeBackground \o ";",
       "      --code-fg: " \o base.codeForeground \o ";",
       "      --border: " \o base.border \o ";",
       "      --link: " \o base.link \o ";",
       "      --link-hover: " \o base.linkHover \o ";",
       "      --font-body: " \o preset.fontFamily \o ";",
       "      --font-heading: " \o headingFont(preset) \o ";",
       "      --font-mono: " \o monoFont(preset) \o ";",
       "      line-height: 1.6;",
       "    }",
       "" >>

darkPalette(preset) == preset.palette.dark

\* darkBlock as it would be if it were left out only under light.
darkBlock_unlessLight(theme, preset) ==
    IF theme # "light"
    THEN << "    @media (prefers-color-scheme: dark) {",
            "      :root {",
            "        --bg: " \o darkPalette(preset).background \o ";",
            "        --fg: " \o darkPalette(preset).foreground \o ";",
            "        --code-bg: " \o darkPalette(preset).codeBackground \o ";",
            "        --code-fg: " \o darkPalette(preset).codeForeground \o ";",
            "        --border: " \o darkPalette(preset).border \o ";",
            "        --link: " \o darkPalette(preset).link \o ";",
            "        --link-hover: " \o darkPalette(preset).linkHover \o ";",
            "      }",
            "    }",
            "" >>
    ELSE EmptyText

darkBlock(theme, preset) ==
    IF theme = "auto"
    THEN << "    @media (prefers-color-scheme: dark) {",
            "      :root {",
            "        --bg: " \o darkPalette(preset).background \o ";",
            "        --fg: " \o darkPalette(preset).foreground \o ";",
            "        --code-bg: " \o darkPalette(preset).codeBackground \o ";",
            "        --code-fg: " \o darkPalette(preset).codeForeground \o ";",
            "        --border: " \o darkPalette(preset).border \o ";",
            "        --link: " \o darkPalette(preset).link \o ";",
            "        --link-hover: " \o darkPalette(preset).linkHover \o ";",
            "      }",
            "    }",
            "" >>
    ELSE EmptyText

typographyBlock ==
    << "    body {",
       "      font-family: var(--font-body);",
       "    }",
       "    h1, h2, h3, h4, h5, h6 {",
       "      font-family: var(--font-heading);",
       "    }",
       "    code, pre code {",
       "      font-family: var(--font-mono);",
       "    }",
       "" >>

\* The filter as it would be if it kept every chunk.
NonEmptyChunk_keepAll(chunk) == TRUE

\* The filter of buildStyles: chunk.length > 0.
NonEmptyChunk(chunk) == TextLength(chunk) > 0

styleChunks(theme, preset, colorScheme) ==
    << rootBlock(theme, preset, colorScheme),
       darkBlock(theme, preset),
       SHARED_STYLES,
       typographyBlock,
       Nullish(preset, "extraCSS", EmptyText) >>

buildStyles(theme, preset, colorScheme) ==
    JoinText(SelectSeq(styleChunks(theme, preset, colorScheme), NonEmptyChunk),
             Newline)

-----------------------------------------------------------------------------
(* Character-level strings.                                                *)

IsSpace(c) == c \in {" ", "\n", "\t", "\r"}

IsLineTerminator(c) == c \in {"\n", "\r"}

\* String.prototype.trim: the longest stretch without white space at either end.
RECURSIVE TrimStart(_)
TrimStart(cs) ==
    IF cs # <<>> /\ IsSpace(Head(cs)) THEN TrimStart(Tail(cs)) ELSE cs

RECURSIVE TrimEnd(_)
TrimEnd(cs) ==
    IF cs # <<>> /\ IsSpace(cs[Len(cs)])
    THEN TrimEnd(SubSeq(cs, 1, Len(cs) - 1))
    ELSE cs

Trim(cs) == TrimEnd(TrimStart(cs))

\* The characters of a sequence as one string.
RECURSIVE Str(_)
Str(cs) == IF cs = <<>> THEN "" ELSE Head(cs) \o Str(Tail(cs))

-----------------------------------------------------------------------------
(* node:path on POSIX paths, as deriveTitle and writeToTempFile use it.     *)

RECURSIVE StripTrailingSlashes(_)
StripTrailingSlashes(path) ==
    IF path # <<>> /\ path[Len(path)] = "/"
    THEN StripTrailingSlashes(SubSeq(path, 1, Len(path) - 1))
    ELSE path

\* The part of the path after its last "/" (trailing "/" ignored).
LastSegment(path) ==
    LET p == StripTrailingSlashes(path)
        slashes == {i \in 1..Len(p) : p[i] = "/"}
        from == IF slashes = {} THEN 1
                ELSE (CHOOSE i \in slashes : \A j \in slashes : j <= i) + 1
    IN  SubSeq(p, from, Len(p))

\* path.extname: from the last "." of the last segment, "" when there is none
\* or when the segment starts with its only "." ; ".." has no extension.
extname(path) ==
    LET base == LastSegment(path)
        dots == {i \in 1..Len(base) : base[i] = "."}
        last == CHOOSE i \in dots : \A j \in dots : j <= i
    IN  IF dots = {} \/ last = 1 \/ base = <<".", ".">> THEN <<>>
        ELSE SubSeq(base, last, Len(base))

\* path.basename(path, ext): the last segment without the suffix ext.
basename(path, ext) ==
    LET base == LastSegment(path)
        n == Len(base) - Len(ext)
    IN  IF ext # <<>> /\ n > 0 /\ SubSeq(base, n + 1, Len(base)) = ext
        THEN SubSeq(base, 1, n)
        ELSE base

-----------------------------------------------------------------------------
(* deriveTitle: presets.ts lines 411-419.                                  *)

\* ^ under the m flag: the start of the input or just after a line terminator.
AtLineStart(s, p) == p = 1 \/ IsLineTerminator(s[p - 1])

\* $ under the m flag, after the character at e: the end of the input or just
\* before a line terminator.
AtLineEnd(s, e) == e = Len(s) \/ IsLineTerminator(s[e + 1])

\* The lengths a run of white space that starts at position from can have.
SpaceRuns(s, from) ==
    {k \in 0..(Len(s) - from + 1) :
        \A t \in from..(from + k - 1) : IsSpace(s[t])}

\* Where a group (.+) that starts at position g can end for $ to match after
\* it: . takes any character but a line terminator.
GroupEnds(s, g) ==
    {e \in g..Len(s) :
        /\ \A t \in g..e : ~IsLineTerminator(s[t])
        /\ AtLineEnd(s, e)}

\* Every way /^\s*#\s+(.+)$/m matches the source: <<p, i, j, e>> for a match
\* that starts at p, with \s* taking i characters, \s+ taking j and the group
\* (.+) ending at e.
H1Matches(s) ==
    UNION { UNION { UNION { {<<p, i, j, e>> : e \in GroupEnds(s, p + i + j + 1)} :
                            j \in SpaceRuns(s, p + i + 1) \ {0} } :
                    i \in {i \in SpaceRuns(s, p) :
                              p + i <= Len(s) /\ s[p + i] = "#"} } :
            p \in {p \in 1..Len(s) : AtLineStart(s, p)} }

\* The match String.prototype.match reports: the leftmost start, and at that
\* start the one backtracking finds first (each quantifier as long as it can
\* be, the earlier quantifier first).
Earlier(m, n) ==
    \/ m[1] < n[1]
    \/ m[1] = n[1] /\ m[2] > n[2]
    \/ m[1] = n[1] /\ m[2] = n[2] /\ m[3] > n[3]
    \/ m[1] = n[1] /\ m[2] = n[2] /\ m[3] = n[3] /\ m[4] >= n[4]

H1FirstMatch(s) ==
    LET matches == H1Matches(s)
    IN  CHOOSE m \in matches : \A n \in matches : Earlier(m, n)

\* match[1]: the text the group captured.
H1Group(s) ==
    LET m == H1FirstMatch(s) IN SubSeq(s, m[1] + m[2] + m[3] + 1, m[4])

DefaultTitle ==
    <<"M","a","r","k","d","o","w","n"," ","P","r","e","v","i","e","w">>

deriveTitle(markdownContent, sourcePath) ==
    LET matched == H1Matches(markdownContent) # {}
        group == H1Group(markdownContent)
        baseName == basename(sourcePath, extname(sourcePath))
    IN  IF matched /\ group # <<>> THEN Trim(group)
        ELSE IF baseName # <<>> THEN baseName
        ELSE DefaultTitle

-----------------------------------------------------------------------------
(* Inputs of the library functions.                                        *)

MaxMdLen == 4

ThemePreference == {"auto", "light", "dark"}

RegisteredPresets == {PRESETS[i] : i \in 1..Len(PRESETS)}

\* A preset outside the catalog with none of the optional fields and fourteen
\* different values, so that no two fields can be taken for one another.
ProbePreset ==
    [ id |-> "probe",
      label |-> "Probe",
      description |-> "Every value different",
      fontImports |-> <<>>,
      fontFamily |-> "body-font",
      palette |->
        [ light |->
            [ background |-> "L-bg", foreground |-> "L-fg",
              codeBackground |-> "L-code-bg", codeForeground |-> "L-code-fg",
              border |-> "L-border", link |-> "L-link",
              linkHover |-> "L-link-hover" ],
          dark |->
            [ background |-> "D-bg", foreground |-> "D-fg",
              codeBackground |-> "D-code-bg", codeForeground |-> "D-code-fg",
              border |-> "D-border", link |-> "D-link",
              linkHover |-> "D-link-hover" ] ] ]

\* rec with one more field.
WithField(rec, field, value) ==
    [k \in DOMAIN rec \cup {field} |-> IF k = field THEN value ELSE rec[k]]

HeadingChoices == {Undefined, [value |-> "heading-font"]}

MonoChoices == {Undefined, [value |-> "mono-font"]}

\* extraCSS absent, the empty string, one line without and with its newline.
ExtraChoices ==
    { Undefined,
      [value |-> EmptyText],
      [value |-> <<"    hr { border: 0; }">>],
      [value |-> <<"    hr { border: 0; }", "">>] }

WithOptional(rec, field, choice) ==
    IF choice = Undefined THEN rec ELSE WithField(rec, field, choice.value)

ProbePresets ==
    { WithOptional(WithOptional(WithOptional(ProbePreset,
            "headingFontFamily", h), "monoFontFamily", m), "extraCSS", x) :
        h \in HeadingChoices, m \in MonoChoices, x \in ExtraChoices }

PresetInputs == RegisteredPresets \cup ProbePresets

ColorSchemeInputs == {"light dark", "light", "dark"}

IdInputs ==
    { "geist-prose", "inter-ui", "Geist-Prose", "INTER-UI", "geist",
      "inter-ui ", "", "unknown-id", "probe" }

MdAlphabet == {"#", " ", "\n", "a"}

MarkdownInputs == UNION {[1..n -> MdAlphabet] : n \in 0..MaxMdLen}

PathInputs ==
    { <<>>,
      <<"/">>,
      <<"/", "n">>,
      <<"/", "n", ".", "m", "d">>,
      <<"/", ".", "m", "d">>,
      <<"/", "n", ".">>,
      <<"/", "d", "/", "n", ".", "t", ".", "m", "d">>,
      <<"/", "d", ".", "x", "/", "n">>,
      <<"/", "d", "/">> }

CallInputs ==
    {[op |-> "resolvePreset", id |-> s] : s \in IdInputs}
    \cup {[op |-> "buildStyles", theme |-> t, preset |-> p, colorScheme |-> c] :
            t \in ThemePreference, p \in PresetInputs, c \in ColorSchemeInputs}
    \cup {[op |-> "deriveTitle", markdownContent |-> md, sourcePath |-> path] :
            md \in MarkdownInputs, path \in PathInputs}

Pending == [done |-> FALSE]

Returned(v) == [done |-> TRUE, value |-> v]

NoCall == [op |-> "none"]

-----------------------------------------------------------------------------
(* The library harness: one call of one function on one input.             *)

InitLib ==
    /\ call \in CallInputs
    /\ ret = Pending
    /\ argv = <<>>
    /\ env = [unread |-> TRUE]
    /\ pc = "lib"
    /\ parsedArgs = Undefined
    /\ locals = Undefined
    /\ templateCache = Undefined
    /\ exitCode = 0
    /\ events = <<>>

CallResolvePreset ==
    /\ call.op = "resolvePreset"
    /\ ret = Pending
    /\ ret' = Returned(resolvePreset(call.id))
    /\ UNCHANGED <<call, runVars>>

CallBuildStyles ==
    /\ call.op = "buildStyles"
    /\ ret = Pending
    /\ ret' = Returned(buildStyles(call.theme, call.preset, call.colorScheme))
    /\ UNCHANGED <<call, runVars>>

CallDeriveTitle ==
    /\ call.op = "deriveTitle"
    /\ ret = Pending
    /\ ret' = Returned(deriveTitle(call.markdownContent, call.sourcePath))
    /\ UNCHANGED <<call, runVars>>

NextLib ==
    \/ CallResolvePreset
    \/ CallBuildStyles
    \/ CallDeriveTitle

SpecLib == InitLib /\ [][NextLib]_vars

-----------------------------------------------------------------------------
(* Reading a composed CSS text back.                                       *)

RootHeader == "    :root {"

MediaHeader == "    @media (prefers-color-scheme: dark) {"

BlockEnd == "    }"

\* The places where a line stands in a text.
LinesEqual(css, line) == {i \in 1..Len(css) : css[i] = line}

MinOf(S) == CHOOSE i \in S : \A j \in S : i <= j

\* The rule that starts with the first line header: its lines up to the first
\* closing brace at the indentation of the header; <<>> when there is none.
RuleOf(css, header) ==
    LET starts == LinesEqual(css, header) IN
    IF starts = {} THEN <<>>
    ELSE LET from == MinOf(starts)
             ends == {i \in LinesEqual(css, BlockEnd) : i > from}
         IN  IF ends = {} THEN <<>> ELSE SubSeq(css, from, MinOf(ends))

PaletteVariables ==
    { <<"--bg", "background">>, <<"--fg", "foreground">>,
      <<"--code-bg", "codeBackground">>, <<"--code-fg", "codeForeground">>,
      <<"--border", "border">>, <<"--link", "link">>,
      <<"--link-hover", "linkHover">> }

FontVariables == {"--font-body", "--font-heading", "--font-mono"}

\* Every value a declaration of these inputs can carry.
CssValues ==
    UNION { {p.palette[m][v[2]] : m \in {"light", "dark"}, v \in PaletteVariables}
            \cup {p.fontFamily, GenericMonoStack, "heading-font", "mono-font"}
            \cup {Nullish(p, "headingFontFamily", p.fontFamily),
                  Nullish(p, "monoFontFamily", GenericMonoStack)} :
            p \in PresetInputs }
    \cup ColorSchemeInputs

\* The values the declarations name: value; of a rule give to name, the
\* declarations standing at the given indentation.
RootIndent == "      "

MediaIndent == "        "

DeclarationNames ==
    {v[1] : v \in PaletteVariables} \cup FontVariables \cup {"color-scheme"}

\* The line that declares name: value; at an indentation.
DeclarationLine ==
    [indent \in {RootIndent, MediaIndent} |->
        [name \in DeclarationNames |->
            [v \in CssValues |-> indent \o name \o ": " \o v \o ";"]]]

\* The value a declaration line of name carries, for each such line.
DeclaredValue ==
    [indent \in {RootIndent, MediaIndent} |->
        [name \in DeclarationNames |->
            [line \in {DeclarationLine[indent][name][v] : v \in CssValues} |->
                CHOOSE v \in CssValues :
                    DeclarationLine[indent][name][v] = line]]]

Declared(rule, indent, name) ==
    LET value == DeclaredValue[indent][name] IN
    {value[rule[i]] : i \in {j \in 1..Len(rule) : rule[j] \in DOMAIN value}}

\* The rule gives each of the seven palette variables the palette's value and
\* no other.
DeclaresPalette(rule, indent, palette) ==
    \A v \in PaletteVariables : Declared(rule, indent, v[1]) = {palette[v[2]]}

\* The paragraphs of a text: its maximal runs of lines that are not blank.
RECURSIVE Paragraphs(_)
Paragraphs(css) ==
    IF css = <<>> THEN <<>>
    ELSE IF Head(css) = "" THEN Paragraphs(Tail(css))
    ELSE LET blanks == LinesEqual(css, "")
             n == IF blanks = {} THEN Len(css) ELSE MinOf(blanks) - 1
         IN  <<SubSeq(css, 1, n)>> \o Paragraphs(SubSeq(css, n + 1, Len(css)))

\* The lines of a text that ends with a newline, without the empty tail that
\* split("\n") leaves after it.
WithoutFinalNewline(t) ==
    IF t[Len(t)] = "" THEN SubSeq(t, 1, Len(t) - 1) ELSE t

BuiltStyles == call.op = "buildStyles" /\ ret.done

-----------------------------------------------------------------------------
(* C1: under the theme preference auto, the :root rule of the composed CSS *)
(* gives the seven palette variables the values of the preset's light      *)
(* palette, and the dark-mode media rule gives the same seven variables    *)
(* the values of the preset's dark palette and declares nothing else (no   *)
(* font variable).  Stated for every preset of the inputs, the registered  *)
(* ones among them.                                                        *)
C1_AutoLightRootDarkMedia ==
    (BuiltStyles /\ call.theme = "auto") =>
        LET root == RuleOf(ret.value, RootHeader)
            media == RuleOf(ret.value, MediaHeader)
        IN  /\ DeclaresPalette(root, RootIndent, call.preset.palette.light)
            /\ DeclaresPalette(media, MediaIndent, call.preset.palette.dark)
            /\ Len(media) = Cardinality(PaletteVariables) + 4
            /\ media[2] = "      :root {"
            /\ \A f \in FontVariables :
                  /\ Declared(media, MediaIndent, f) = {}
                  /\ Declared(media, RootIndent, f) = {}

C1_Witness ==
    /\ BuiltStyles
    /\ call.theme = "auto"
    /\ call.preset = GeistProse
    /\ "        --bg: linear-gradient(160deg, #0b1120 0%, #111827 45%, #020617 100%);"
           \in {ret.value[i] : i \in 1..Len(ret.value)}

(* C2: for every registered preset the composed CSS holds no dark-mode     *)
(* media rule when the theme preference is light or dark, and exactly one  *)
(* when it is auto.                                                        *)
C2_MediaBlockCount ==
    (BuiltStyles /\ call.preset \in RegisteredPresets) =>
        Cardinality(LinesEqual(ret.value, MediaHeader)) =
            IF call.theme = "auto" THEN 1 ELSE 0

C2_Witness ==
    /\ BuiltStyles
    /\ call.preset = InterUi
    /\ call.theme = "dark"
    /\ LinesEqual(ret.value, MediaHeader) = {}

(* C4: the composed CSS is, in this order, the :root rule, the dark-mode    *)
(* media rule (under auto only), the shared layout block, the typography   *)
(* block and the preset's extraCSS (when present and not empty); a block    *)
(* that is empty leaves neither text nor separator, two blocks that follow *)
(* one another are one blank line apart, the shared layout block is the    *)
(* same text for every preset and theme, and extraCSS ends the text        *)
(* unchanged.                                                              *)
C4_BlockOrder ==
    BuiltStyles =>
        LET css == ret.value
            paras == Paragraphs(css)
            auto == IF call.theme = "auto" THEN 1 ELSE 0
            extra == Nullish(call.preset, "extraCSS", EmptyText)
            hasExtra == extra # EmptyText
            n == 3 + auto + (IF hasExtra THEN 1 ELSE 0)
        IN  /\ Len(paras) = n
            /\ paras[1] = WithoutFinalNewline(RuleOf(css, RootHeader))
            /\ auto = 1 => paras[2] = WithoutFinalNewline(RuleOf(css, MediaHeader))
            /\ auto = 0 => LinesEqual(css, MediaHeader) = {}
            /\ paras[2 + auto] = WithoutFinalNewline(SHARED_STYLES)
            /\ paras[3 + auto] = WithoutFinalNewline(typographyBlock)
            /\ hasExtra =>
                  /\ paras[n] = WithoutFinalNewline(extra)
                  /\ SubSeq(css, Len(css) - Len(extra) + 1, Len(css)) = extra
            /\ css[1] # ""
            /\ \A i \in 1..(Len(css) - 1) : ~(css[i] = "" /\ css[i + 1] = "")
            /\ ~hasExtra => css[Len(css)] = ""

C4_Witness ==
    /\ BuiltStyles
    /\ call.theme = "light"
    /\ "extraCSS" \in DOMAIN call.preset
    /\ call.preset.extraCSS = EmptyText
    /\ Len(Paragraphs(ret.value)) = 3

(* C5: resolvePreset(s) returns the catalog preset whose id is exactly s   *)
(* (upper and lower case told apart) when there is one and undefined when  *)
(* there is none; the ids of the catalog are pairwise different, so for a  *)
(* registered preset p, resolvePreset(p.id) is p and no other preset.      *)
C5_ResolvePreset ==
    /\ \A i, j \in 1..Len(PRESETS) : PRESETS[i].id = PRESETS[j].id => i = j
    /\ (call.op = "resolvePreset" /\ ret.done) =>
          LET same == {p \in RegisteredPresets : p.id = call.id} IN
          IF same = {} THEN ret.value = Undefined ELSE same = {ret.value}

C5_Witness ==
    /\ call.op = "resolvePreset"
    /\ ret.done
    /\ call.id = "inter-ui"
    /\ ret.value = InterUi

(* C6: in the :root rule --font-body is the preset's fontFamily;            *)
(* --font-heading is its headingFontFamily when present and its fontFamily *)
(* when absent; --font-mono is its monoFontFamily when present and the     *)
(* fixed generic monospace stack when absent; none of the three depends on *)
(* the theme preference.                                                   *)
C6_FontVariables ==
    BuiltStyles =>
        LET root == RuleOf(ret.value, RootHeader)
            p == call.preset
        IN  /\ Declared(root, RootIndent, "--font-body") = {p.fontFamily}
            /\ Declared(root, RootIndent, "--font-heading") =
                  {IF "headingFontFamily" \in DOMAIN p
                   THEN p.headingFontFamily ELSE p.fontFamily}
            /\ Declared(root, RootIndent, "--font-mono") =
                  {IF "monoFontFamily" \in DOMAIN p
                   THEN p.monoFontFamily
                   ELSE "SFMono-Regular, Menlo, Monaco, Consolas, \"Liberation Mono\", monospace"}

C6_Witness ==
    /\ BuiltStyles
    /\ call.theme = "dark"
    /\ "headingFontFamily" \notin DOMAIN call.preset
    /\ "monoFontFamily" \notin DOMAIN call.preset
    /\ Declared(RuleOf(ret.value, RootHeader), RootIndent, "--font-heading")
           = {"body-font"}

-----------------------------------------------------------------------------
(* Command-line tokens, character by character.                            *)

Opt_h == <<"-", "h">>

Opt_help == <<"-", "-", "h", "e", "l", "p">>

Opt_no_open == <<"-", "-", "n", "o", "-", "o", "p", "e", "n">>

Opt_stdout == <<"-", "-", "s", "t", "d", "o", "u", "t">>

Opt_list_styles ==
    <<"-", "-", "l", "i", "s", "t", "-", "s", "t", "y", "l", "e", "s">>

Opt_dark == <<"-", "-", "d", "a", "r", "k">>

Opt_light == <<"-", "-", "l", "i", "g", "h", "t">>

Opt_theme == <<"-", "-", "t", "h", "e", "m", "e">>

Opt_style == <<"-", "-", "s", "t", "y", "l", "e">>

Prefix_theme == <<"-", "-", "t", "h", "e", "m", "e", "=">>

Prefix_style == <<"-", "-", "s", "t", "y", "l", "e", "=">>

Prefix_option == <<"-", "-">>

Chars_light == <<"l", "i", "g", "h", "t">>

Chars_dark == <<"d", "a", "r", "k">>

Chars_auto == <<"a", "u", "t", "o">>

DEFAULT_STYLE_ID == <<"g", "e", "i", "s", "t", "-", "p", "r", "o", "s", "e">>

\* String.prototype.startsWith.
StartsWith(s, prefix) ==
    Len(s) >= Len(prefix) /\ SubSeq(s, 1, Len(prefix)) = prefix

\* String.prototype.split on a one-character separator: the stretches between
\* the separators, the empty ones included.
RECURSIVE Split(_, _)
Split(s, sep) ==
    LET at == {i \in 1..Len(s) : s[i] = sep} IN
    IF at = {} THEN <<s>>
    ELSE LET i == MinOf(at)
         IN  <<SubSeq(s, 1, i - 1)>> \o Split(SubSeq(s, i + 1, Len(s)), sep)

\* arr[i] for a zero-based i: [value |-> the element], Undefined past the end.
ArrayAt(arr, i) ==
    IF i + 1 \in 1..Len(arr) THEN [value |-> arr[i + 1]] ELSE Undefined

UpperCase ==
    <<"A", "B", "C", "D", "E", "F", "G", "H", "I", "J", "K", "L", "M",
      "N", "O", "P", "Q", "R", "S", "T", "U", "V", "W", "X", "Y", "Z">>

LowerCase ==
    <<"a", "b", "c", "d", "e", "f", "g", "h", "i", "j", "k", "l", "m",
      "n", "o", "p", "q", "r", "s", "t", "u", "v", "w", "x", "y", "z">>

\* String.prototype.toLowerCase.
ToLowerCase(s) ==
    [i \in 1..Len(s) |->
        IF \E k \in 1..Len(UpperCase) : UpperCase[k] = s[i]
        THEN LowerCase[CHOOSE k \in 1..Len(UpperCase) : UpperCase[k] = s[i]]
        ELSE s[i]]

-----------------------------------------------------------------------------
(* parseArguments and parseTheme: presets.ts lines 437-525.  A function    *)
(* that returns gives Ok(value); one that throws gives Throw(message).     *)

Ok(v) == [ok |-> TRUE, value |-> v]

Throw(message) == [ok |-> FALSE, message |-> message]

InvalidThemeMessage ==
    <<"Invalid theme value", ". Use \"light\", \"dark\", or \"auto\".">>

MissingThemeMessage ==
    <<"Missing value for --theme. Expected \"light\" or \"dark\".">>

MissingStyleMessage ==
    <<"Missing value for --style. Use ", "--list-styles", " to inspect options.">>

UnknownOptionMessage(token) == <<"Unknown option: ", Str(token)>>

\* The theme values parseTheme lets through unchanged.
IsLightOrDark(normalized) ==
    normalized = Chars_light \/ normalized = Chars_dark

\* The theme values parseTheme reads as auto.
IsAuto(normalized) ==
    normalized = Chars_auto \/ normalized = <<>>

\* parseTheme as it would be if a value it does not know meant auto.
parseTheme_unknownIsAuto(raw) ==
    LET normalized == ToLowerCase(raw) IN
    IF IsLightOrDark(normalized) THEN Ok(Str(normalized)) ELSE Ok("auto")

parseTheme(raw) ==
    LET normalized == ToLowerCase(raw) IN
    IF IsLightOrDark(normalized) THEN Ok(Str(normalized))
    ELSE IF IsAuto(normalized) THEN Ok("auto")
    ELSE Throw(InvalidThemeMessage)

\* The locals of parseArguments before its loop.
InitialArgs ==
    [ positional |-> <<>>,
      flags |-> {},
      theme |-> "auto",
      showHelp |-> FALSE,
      styleId |-> DEFAULT_STYLE_ID,
      listStyles |-> FALSE ]

\* !next, for next = args[index + 1]: undefined or the empty string.
Falsy(next) == IF next = Undefined THEN TRUE ELSE next.value = <<>>

\* The test as it would be if every unknown token were a positional argument.
IsUnknownOption_never(token) == FALSE

\* The token is not an option the loop knows and starts with "--".
IsUnknownOption(token) == StartsWith(token, Prefix_option)

\* The loop of parseArguments from a zero-based index on, acc its locals.
RECURSIVE parseLoop(_, _, _)
parseLoop(args, index, acc) ==
    IF ~(index < Len(args)) THEN Ok(acc)
    ELSE
    LET token == args[index + 1]
        next == ArrayAt(args, index + 1)
    IN
    IF token = Opt_h \/ token = Opt_help
    THEN parseLoop(args, index + 1, [acc EXCEPT !.showHelp = TRUE])
    ELSE IF token = Opt_no_open \/ token = Opt_stdout
    THEN parseLoop(args, index + 1, [acc EXCEPT !.flags = @ \cup {token}])
    ELSE IF token = Opt_list_styles
    THEN parseLoop(args, index + 1, [acc EXCEPT !.listStyles = TRUE])
    ELSE IF token = Opt_dark
    THEN parseLoop(args, index + 1, [acc EXCEPT !.theme = "dark"])
    ELSE IF token = Opt_light
    THEN parseLoop(args, index + 1, [acc EXCEPT !.theme = "light"])
    ELSE IF StartsWith(token, Prefix_theme)
    THEN LET part == ArrayAt(Split(token, "="), 1)
             t == parseTheme(IF part = Undefined THEN <<>> ELSE part.value)
         IN  IF t.ok
             THEN parseLoop(args, index + 1, [acc EXCEPT !.theme = t.value])
             ELSE t
    ELSE IF token = Opt_theme
    THEN IF Falsy(next) THEN Throw(MissingThemeMessage)
         ELSE LET t == parseTheme(next.value)
              IN  IF t.ok
                  THEN parseLoop(args, index + 2, [acc EXCEPT !.theme = t.value])
                  ELSE t
    ELSE IF StartsWith(token, Prefix_style)
    THEN LET part == ArrayAt(Split(token, "="), 1)
         IN  parseLoop(args, index + 1,
                 [acc EXCEPT !.styleId =
                     IF part = Undefined THEN DEFAULT_STYLE_ID
                     ELSE part.value])
    ELSE IF token = Opt_style
    THEN IF Falsy(next) THEN Throw(MissingStyleMessage)
         ELSE parseLoop(args, index + 2, [acc EXCEPT !.styleId = next.value])
    ELSE IF IsUnknownOption(token)
    THEN Throw(UnknownOptionMessage(token))
    ELSE parseLoop(args, index + 1, [acc EXCEPT !.positional = Append(@, token)])

\* The parse as it would be if every token after the first positional
\* argument were a positional argument too.
parseArguments_optionsFirst(args) ==
    LET whole == parseLoop(args, 0, InitialArgs) IN
    IF ~whole.ok \/ whole.value.positional = <<>> THEN whole
    ELSE LET first == CHOOSE i \in 1..Len(args) :
                         /\ args[i] = whole.value.positional[1]
                         /\ \A j \in 1..(i - 1) : args[j] # args[i]
             head == parseLoop(SubSeq(args, 1, first), 0, InitialArgs)
         IN  IF ~head.ok THEN head
             ELSE Ok([head.value EXCEPT !.positional =
                         @ \o SubSeq(args, first + 1, Len(args))])

parseArguments(args) == parseLoop(args, 0, InitialArgs)

-----------------------------------------------------------------------------
(* renderMarkdown, escapeHtml and renderHtmlDocument: presets.ts lines     *)
(* 248-286 and 535-542.                                                    *)

\* The character U+0060 (the backquote of a code fence), written by its code
\* point.
Backquote == "U+0060"

MermaidFence ==
    <<Backquote, Backquote, Backquote, "m", "e", "r", "m", "a", "i", "d">>

FenceEnd == <<Backquote, Backquote, Backquote>>

MermaidDivOpen ==
    <<"\n", "<", "d", "i", "v", " ", "c", "l", "a", "s", "s", "=", "\"",
      "m", "e", "r", "m", "a", "i", "d", "\"", ">">>

MermaidDivClose == <<"<", "/", "d", "i", "v", ">", "\n">>

\* String.prototype.replace(/c/g, by) for one character c.
RECURSIVE ReplaceAll(_, _, _)
ReplaceAll(s, c, by) ==
    IF s = <<>> THEN <<>>
    ELSE (IF Head(s) = c THEN by ELSE <<Head(s)>>) \o ReplaceAll(Tail(s), c, by)

escapeHtml(value) ==
    ReplaceAll(
      ReplaceAll(
        ReplaceAll(
          ReplaceAll(
            ReplaceAll(value, "&", <<"&", "a", "m", "p", ";">>),
            "<", <<"&", "l", "t", ";">>),
          ">", <<"&", "g", "t", ";">>),
        "\"", <<"&", "q", "u", "o", "t", ";">>),
      "'", <<"&", "#", "3", "9", ";">>)

\* s holds the characters of word from position p on.
HasAt(s, p, word) ==
    p + Len(word) - 1 <= Len(s) /\ SubSeq(s, p, p + Len(word) - 1) = word

\* The first position from p on that holds no white space.
RECURSIVE SkipSpace(_, _)
SkipSpace(s, p) ==
    IF p <= Len(s) /\ IsSpace(s[p]) THEN SkipSpace(s, p + 1) ELSE p

\* Where the closing fence of the expression of renderMarkdown (the fence
\* labelled mermaid, \s*, the group ([\s\S]*?), the closing fence) stands for a
\* match that starts at p: the first one after the white space that follows the
\* label; the empty set when the expression does not match at p.
MermaidClosers(s, p) ==
    IF ~HasAt(s, p, MermaidFence) THEN {}
    ELSE {q \in SkipSpace(s, p + Len(MermaidFence))..Len(s) : HasAt(s, q, FenceEnd)}

\* The replace of renderMarkdown, one match after the other from the left.
RECURSIVE replaceMermaid(_)
replaceMermaid(s) ==
    LET starts == {p \in 1..Len(s) : MermaidClosers(s, p) # {}} IN
    IF starts = {} THEN [text |-> s, mermaidDetected |-> FALSE]
    ELSE LET p == MinOf(starts)
             q == MinOf(MermaidClosers(s, p))
             code == SubSeq(s, SkipSpace(s, p + Len(MermaidFence)), q - 1)
             trimmed == TrimEnd(code)
             rest == replaceMermaid(SubSeq(s, q + Len(FenceEnd), Len(s)))
         IN  [ text |-> SubSeq(s, 1, p - 1) \o MermaidDivOpen
                        \o escapeHtml(trimmed) \o MermaidDivClose \o rest.text,
               mermaidDetected |-> TRUE ]

\* marked.parse: the Markdown library, not interpreted.
MarkedParse(processed) == [marked |-> processed]

renderMarkdown(markdownContent) ==
    LET r == replaceMermaid(markdownContent) IN
    [htmlBody |-> MarkedParse(r.text), mermaidDetected |-> r.mermaidDetected]

MermaidHeadScript ==
    "<script src=\"https://cdn.jsdelivr.net/npm/mermaid@10/dist/mermaid.min.js\"></script>"

MermaidBodyScript ==
    "<script>if (window.mermaid) { mermaid.initialize({ startOnLoad: true, theme: \"default\" }); }</script>"

\* The hint as it would be if it announced both schemes whatever the theme.
colorSchemeOf_alwaysBoth(theme) == "light dark"

\* theme === 'auto' ? 'light dark' : theme
colorSchemeOf(theme) == IF theme = "auto" THEN "light dark" ELSE theme

\* Array.prototype.join on strings.
RECURSIVE JoinStrings(_, _)
JoinStrings(strs, sep) ==
    IF strs = <<>> THEN ""
    ELSE IF Len(strs) = 1 THEN strs[1]
    ELSE strs[1] \o sep \o JoinStrings(Tail(strs), sep)

\* The values renderHtmlDocument hands to Mustache.render.
templateView(input, preset, options) ==
    LET colorScheme == colorSchemeOf(input.theme) IN
    [ title |-> input.title,
      body |-> input.body,
      styles |-> buildStyles(input.theme, preset, colorScheme),
      colorScheme |-> colorScheme,
      fontImports |-> JoinStrings(preset.fontImports, "\n    "),
      headScripts |-> IF options.mermaidDetected THEN MermaidHeadScript ELSE "",
      bodyScripts |-> IF options.mermaidDetected THEN MermaidBodyScript ELSE "",
      bodyClass |-> "preset-" \o preset.id ]

\* Mustache.render: the templating library, not interpreted.
MustacheRender(template, view) == [template |-> template, view |-> view]

\* renderHtmlDocument once the template is loaded.
renderHtmlDocument(template, input, preset, options) ==
    MustacheRender(template, templateView(input, preset, options))

-----------------------------------------------------------------------------
(* What a run writes and calls, in order.                                  *)

StdoutWrite(what, data) == [kind |-> "stdout", what |-> what, data |-> data]

StderrWrite(text) == [kind |-> "stderr", text |-> text]

emitError(message) == StderrWrite(<<"Error: ">> \o message \o <<"\n">>)

emitWarning(message) == StderrWrite(<<"Warning: ">> \o message \o <<"\n">>)

\* A call of node:fs/promises or of open: op is readFile, mkdtemp, writeFile
\* or open.
IoCall(op, what, path) == [kind |-> op, what |-> what, path |-> path]

HELP_TEXT ==
    << "Usage: markdown-render <markdown-file> [options]",
       "",
       "Options:",
       "  -h, --help            Show this help message and exit.",
       "  --no-open             Generate the HTML file but skip launching the browser.",
       "  --stdout              Print the generated HTML to standard output.",
       "  --theme <mode>        Override auto detection with \"light\" or \"dark\".",
       "  --style <id>          Apply a typography/background preset (default: " \o Str(DEFAULT_STYLE_ID) \o ").",
       "  --list-styles         Print available style presets and exit.",
       "  --light               Shortcut for \"--theme light\".",
       "  --dark                Shortcut for \"--theme dark\".",
       "" >>

\* The character U+2014 (the dash between label and description), written by
\* its code point.
EmDash == "U+2014"

\* The lines printStyles writes: one for each preset, then the final newline.
printStylesText ==
    [i \in 1..Len(listPresets) |->
        "- " \o listPresets[i].id \o ": " \o listPresets[i].label
             \o " " \o EmDash \o " " \o listPresets[i].description] \o <<"">>

ExactlyOneMessage == <<"Please provide exactly one markdown file.">>

\* The message as it would be without its hint.
UnknownStyleMessage_noHint(styleId) ==
    <<"Unknown style \"", Str(styleId), "\".">>

UnknownStyleMessage(styleId) ==
    <<"Unknown style \"", Str(styleId), "\". Use ", "--list-styles",
      " to see available options.">>

UnableToReadMessage(markdownPath, reason) ==
    <<"Unable to read \"", Str(markdownPath), "\". ", reason>>

UnexpectedMessage(reason) == <<"Unexpected error: ", reason>>

FailedToOpenMessage(reason) == <<"Failed to open browser. ", reason>>

Cwd == <<"/", "w">>

\* path.resolve of one argument against the working directory.
resolve(path) ==
    IF path = <<>> THEN Cwd
    ELSE IF path[1] = "/" THEN path
    ELSE Cwd \o <<"/">> \o path

TempDir ==
    <<"/", "t", "m", "p", "/", "m", "a", "r", "k", "d", "o", "w", "n", "-",
      "r", "e", "n", "d", "e", "r", "-", "X">>

\* The path writeToTempFile writes to, in the directory mkdtemp made.
outputPathOf(tempDir, sourcePath) ==
    LET base == basename(sourcePath, extname(sourcePath))
        baseName == IF base # <<>> THEN base
                    ELSE <<"p", "r", "e", "v", "i", "e", "w">>
    IN  tempDir \o <<"/">> \o baseName \o <<".", "h", "t", "m", "l">>

\* The content of template/document.mustache, not interpreted.
TemplateText == "document.mustache"

-----------------------------------------------------------------------------
(* Inputs of a run.                                                        *)

MaxArgs == 3

Arg_file == <<"n", "o", "t", "e", "s", ".", "m", "d">>

Arg_sideways == <<"s", "i", "d", "e", "w", "a", "y", "s">>

Arg_Light == <<"L", "i", "g", "h", "t">>

Arg_inter == <<"i", "n", "t", "e", "r", "-", "u", "i">>

Arg_nope == <<"n", "o", "p", "e">>

Arg_bogus == <<"-", "-", "b", "o", "g", "u", "s">>

Arg_x == <<"-", "x">>

ArgTokens ==
    { Opt_h, Opt_help, Opt_no_open, Opt_stdout, Opt_list_styles, Opt_dark,
      Opt_light, Opt_theme, Opt_style,
      Prefix_theme \o <<"D", "A", "R", "K">>,
      Prefix_theme \o Arg_sideways,
      Prefix_theme,
      Prefix_theme \o Chars_light \o <<"=", "x">>,
      Prefix_style \o Arg_inter,
      Prefix_style \o Arg_nope,
      Arg_bogus, Arg_x, Arg_file, Arg_sideways, Arg_Light, Arg_inter, <<>> }

ArgvInputs == UNION {[1..n -> ArgTokens] : n \in 0..MaxArgs}

Md_heading == <<"#", " ", "H", "i", "\n", "t", "e", "x", "t">>

Md_plain == <<"t", "e", "x", "t">>

Md_mermaid ==
    MermaidFence \o <<"\n", "A", "-", "-", ">", "B", "\n">> \o FenceEnd \o <<"\n">>

FileContents == {Md_heading, Md_plain, Md_mermaid}

\* An environment variable: unset, or set to a string.
EnvValues == {Undefined, [value |-> ""], [value |-> "0"], [value |-> "1"]}

\* The test as it would be if an empty value counted as a value.
EnvFalsy_onlyUnset(v) == v = Undefined

\* !process.env.NAME
EnvFalsy(v) == IF v = Undefined THEN TRUE ELSE v.value = ""

Unread == [unread |-> TRUE]

-----------------------------------------------------------------------------
(* main: presets.ts lines 179-246 and 550-557, one action for each stretch *)
(* between two awaits.                                                     *)

Init ==
    /\ call = NoCall
    /\ ret = Pending
    /\ argv \in ArgvInputs
    /\ env = [MARKDOWN_RENDER_NO_OPEN |-> Unread, DEBUG |-> Unread]
    /\ pc = "start"
    /\ parsedArgs = Undefined
    /\ locals = Undefined
    /\ templateCache = Undefined
    /\ exitCode = 0
    /\ events = <<>>

\* parseArguments throws: lines 181-187.
MainArgumentError(parsed) ==
    /\ pc = "start"
    /\ ~parsed.ok
    /\ events' = Append(events, emitError(parsed.message))
    /\ exitCode' = 1
    /\ pc' = "done"
    /\ UNCHANGED <<call, ret, argv, env, parsedArgs, locals, templateCache>>

\* --list-styles: lines 189-192.
MainListStyles(parsed) ==
    /\ pc = "start"
    /\ parsed.ok
    /\ LET args == parsed.value IN
        /\ args.listStyles
        /\ parsedArgs' = args
        /\ events' = Append(events, StdoutWrite("styles", printStylesText))
        /\ pc' = "done"
    /\ UNCHANGED <<call, ret, argv, env, locals, templateCache, exitCode>>

\* --help: lines 194-197.
MainShowHelp(parsed) ==
    /\ pc = "start"
    /\ parsed.ok
    /\ LET args == parsed.value IN
        /\ ~args.listStyles
        /\ args.showHelp
        /\ parsedArgs' = args
        /\ events' = Append(events, StdoutWrite("help", HELP_TEXT))
        /\ pc' = "done"
    /\ UNCHANGED <<call, ret, argv, env, locals, templateCache, exitCode>>

\* The check of the positional arguments as it would be if it came before
\* the check of showHelp.
MainPositionalError_beforeHelp(parsed) ==
    /\ pc = "start"
    /\ parsed.ok
    /\ LET args == parsed.value IN
        /\ ~args.listStyles
        /\ Len(args.positional) # 1
        /\ parsedArgs' = args
        /\ events' = events \o << emitError(ExactlyOneMessage),
                                  StdoutWrite("help", HELP_TEXT) >>
        /\ exitCode' = 1
        /\ pc' = "done"
    /\ UNCHANGED <<call, ret, argv, env, locals, templateCache>>

\* Not exactly one positional argument: lines 199-204.
MainPositionalError(parsed) ==
    /\ pc = "start"
    /\ parsed.ok
    /\ LET args == parsed.value IN
        /\ ~args.listStyles
        /\ ~args.showHelp
        /\ Len(args.positional) # 1
        /\ parsedArgs' = args
        /\ events' = events \o << emitError(ExactlyOneMessage),
                                  StdoutWrite("help", HELP_TEXT) >>
        /\ exitCode' = 1
        /\ pc' = "done"
    /\ UNCHANGED <<call, ret, argv, env, locals, templateCache>>

\* The style id is not in the catalog: lines 206-211.
MainUnknownStyle(parsed) ==
    /\ pc = "start"
    /\ parsed.ok
    /\ LET args == parsed.value IN
        /\ ~args.listStyles
        /\ ~args.showHelp
        /\ Len(args.positional) = 1
        /\ resolvePreset(Str(args.styleId)) = Undefined
        /\ parsedArgs' = args
        /\ events' = Append(events, emitError(UnknownStyleMessage(args.styleId)))
        /\ exitCode' = 1
        /\ pc' = "done"
    /\ UNCHANGED <<call, ret, argv, env, locals, templateCache>>

\* The read as it would be if the first of several positional arguments
\* were taken as the file.
MainReadSource_firstOfSeveral(parsed) ==
    /\ pc = "start"
    /\ parsed.ok
    /\ LET args == parsed.value
           preset == resolvePreset(Str(args.styleId))
       IN
        /\ ~args.listStyles
        /\ ~args.showHelp
        /\ Len(args.positional) >= 1
        /\ preset # Undefined
        /\ parsedArgs' = args
        /\ locals' = [preset |-> preset,
                      markdownPath |-> resolve(args.positional[1])]
        /\ events' = Append(events, IoCall("readFile", "source",
                                           resolve(args.positional[1])))
        /\ pc' = "readFile"
    /\ UNCHANGED <<call, ret, argv, env, templateCache, exitCode>>

\* The source is read: lines 213-217.
MainReadSource(parsed) ==
    /\ pc = "start"
    /\ parsed.ok
    /\ LET args == parsed.value
           preset == resolvePreset(Str(args.styleId))
           markdownPath == resolve(args.positional[1])
       IN
        /\ ~args.listStyles
        /\ ~args.showHelp
        /\ Len(args.positional) = 1
        /\ preset # Undefined
        /\ parsedArgs' = args
        /\ locals' = [preset |-> preset, markdownPath |-> markdownPath]
        /\ events' = Append(events, IoCall("readFile", "source", markdownPath))
        /\ pc' = "readFile"
    /\ UNCHANGED <<call, ret, argv, env, templateCache, exitCode>>

\* main from its entry to its first await or return; parsed is what
\* parseArguments returns or throws.
MainStart ==
    LET parsed == parseArguments(argv) IN
    \/ MainArgumentError(parsed)
    \/ MainListStyles(parsed)
    \/ MainShowHelp(parsed)
    \/ MainPositionalError(parsed)
    \/ MainUnknownStyle(parsed)
    \/ MainReadSource(parsed)

\* The step as it would be if the catch of readFile left the exit status as
\* it was.
ReadSourceFails_exitStatusKept ==
    /\ pc = "readFile"
    /\ events' = Append(events,
          emitError(UnableToReadMessage(locals.markdownPath, "ENOENT")))
    /\ pc' = "done"
    /\ UNCHANGED <<call, ret, argv, env, parsedArgs, locals, templateCache,
                   exitCode>>

\* readFile rejects: lines 218-222.
ReadSourceFails ==
    /\ pc = "readFile"
    /\ events' = Append(events,
          emitError(UnableToReadMessage(locals.markdownPath, "ENOENT")))
    /\ exitCode' = 1
    /\ pc' = "done"
    /\ UNCHANGED <<call, ret, argv, env, parsedArgs, locals, templateCache>>

\* loadTemplate: lines 429-435.  The cache is set to the promise of the read
\* at once, before the read settles.
loadTemplateCache(cache) ==
    IF cache = Undefined THEN [state |-> "pending"] ELSE cache

loadTemplateEvents(cache) ==
    IF cache = Undefined
    THEN <<IoCall("readFile", "template", "template/document.mustache")>>
    ELSE <<>>

\* readFile resolves; renderMarkdown, deriveTitle and renderHtmlDocument up to
\* its await of loadTemplate: lines 217, 224-226, 248-258, 265.
ReadSourceSucceeds ==
    /\ pc = "readFile"
    /\ \E markdownContent \in FileContents :
          LET rendered == renderMarkdown(markdownContent)
              title == deriveTitle(markdownContent, locals.markdownPath)
          IN  locals' = [ preset |-> locals.preset,
                          markdownPath |-> locals.markdownPath,
                          markdownContent |-> markdownContent,
                          htmlBody |-> rendered.htmlBody,
                          mermaidDetected |-> rendered.mermaidDetected,
                          title |-> title ]
    /\ templateCache' = loadTemplateCache(templateCache)
    /\ events' = events \o loadTemplateEvents(templateCache)
    /\ pc' = "loadTemplate"
    /\ UNCHANGED <<call, ret, argv, env, parsedArgs, exitCode>>

\* main().catch: lines 550-557.  DEBUG is read here.
Uncaught(reason) ==
    /\ \E debug \in EnvValues :
          /\ env' = [env EXCEPT !.DEBUG = debug]
          /\ events' = events \o <<emitError(UnexpectedMessage(reason))>>
                \o (IF EnvFalsy(debug) THEN <<>>
                    ELSE <<StderrWrite(<<"stack of ", reason, "\n">>)>>)
    /\ exitCode' = 1
    /\ pc' = "done"

\* The read of the template rejects and nothing catches it.
TemplateFails ==
    /\ pc = "loadTemplate"
    /\ templateCache.state = "pending"
    /\ templateCache' = [state |-> "rejected"]
    /\ Uncaught("ENOENT")
    /\ UNCHANGED <<call, ret, argv, parsedArgs, locals>>

\* The document renderHtmlDocument returns once the template is there.
htmlDocumentOf(template) ==
    renderHtmlDocument(template,
        [title |-> locals.title, body |-> locals.htmlBody,
         theme |-> parsedArgs.theme],
        locals.preset,
        [mermaidDetected |-> locals.mermaidDetected])

\* The template is there and --stdout is given: lines 226-231.
TemplateLoadsToStdout ==
    /\ pc = "loadTemplate"
    /\ templateCache.state = "pending"
    /\ Opt_stdout \in parsedArgs.flags
    /\ templateCache' = [state |-> "fulfilled", value |-> TemplateText]
    /\ locals' = WithField(locals, "htmlDocument", htmlDocumentOf(TemplateText))
    /\ events' = Append(events, StdoutWrite("html", htmlDocumentOf(TemplateText)))
    /\ pc' = "done"
    /\ UNCHANGED <<call, ret, argv, env, parsedArgs, exitCode>>

\* The step as it would be if the document went to a file under --stdout too.
TemplateLoadsToFile_ignoresStdout ==
    /\ pc = "loadTemplate"
    /\ templateCache.state = "pending"
    /\ templateCache' = [state |-> "fulfilled", value |-> TemplateText]
    /\ locals' = WithField(locals, "htmlDocument", htmlDocumentOf(TemplateText))
    /\ events' = Append(events, IoCall("mkdtemp", "directory", TempDir))
    /\ pc' = "mkdtemp"
    /\ UNCHANGED <<call, ret, argv, env, parsedArgs, exitCode>>

\* The template is there and the document goes to a file: lines 226, 233, 422.
TemplateLoadsToFile ==
    /\ pc = "loadTemplate"
    /\ templateCache.state = "pending"
    /\ Opt_stdout \notin parsedArgs.flags
    /\ templateCache' = [state |-> "fulfilled", value |-> TemplateText]
    /\ locals' = WithField(locals, "htmlDocument", htmlDocumentOf(TemplateText))
    /\ events' = Append(events, IoCall("mkdtemp", "directory", TempDir))
    /\ pc' = "mkdtemp"
    /\ UNCHANGED <<call, ret, argv, env, parsedArgs, exitCode>>

MkdtempFails ==
    /\ pc = "mkdtemp"
    /\ Uncaught("EACCES")
    /\ UNCHANGED <<call, ret, argv, parsedArgs, locals, templateCache>>

\* mkdtemp resolves and the file is written: lines 423-425.
MkdtempSucceeds ==
    /\ pc = "mkdtemp"
    /\ locals' = WithField(locals, "outputPath",
                           outputPathOf(TempDir, locals.markdownPath))
    /\ events' = Append(events,
          IoCall("writeFile", locals.htmlDocument,
                 outputPathOf(TempDir, locals.markdownPath)))
    /\ pc' = "writeFile"
    /\ UNCHANGED <<call, ret, argv, env, parsedArgs, templateCache, exitCode>>

WriteFileFails ==
    /\ pc = "writeFile"
    /\ Uncaught("ENOSPC")
    /\ UNCHANGED <<call, ret, argv, parsedArgs, locals, templateCache>>

GeneratedMessage(outputPath) == <<"Generated HTML: ", Str(outputPath), "\n">>

\* writeFile resolves, --no-open is given: lines 234-239.  The environment is
\* not read (the && stops at its left operand).
WriteFileSucceedsNoOpenFlag ==
    /\ pc = "writeFile"
    /\ Opt_no_open \in parsedArgs.flags
    /\ events' = Append(events,
          StdoutWrite("path", GeneratedMessage(locals.outputPath)))
    /\ pc' = "done"
    /\ UNCHANGED <<call, ret, argv, env, parsedArgs, locals, templateCache,
                   exitCode>>

\* writeFile resolves, the environment suppresses the browser: lines 234-239.
WriteFileSucceedsNoOpenEnv ==
    /\ pc = "writeFile"
    /\ Opt_no_open \notin parsedArgs.flags
    /\ \E v \in EnvValues :
          /\ ~EnvFalsy(v)
          /\ env' = [env EXCEPT !.MARKDOWN_RENDER_NO_OPEN = v]
    /\ events' = Append(events,
          StdoutWrite("path", GeneratedMessage(locals.outputPath)))
    /\ pc' = "done"
    /\ UNCHANGED <<call, ret, argv, parsedArgs, locals, templateCache, exitCode>>

\* writeFile resolves and the browser is launched: lines 234-242.
WriteFileSucceedsOpen ==
    /\ pc = "writeFile"
    /\ Opt_no_open \notin parsedArgs.flags
    /\ \E v \in EnvValues :
          /\ EnvFalsy(v)
          /\ env' = [env EXCEPT !.MARKDOWN_RENDER_NO_OPEN = v]
    /\ events' = events \o
          << StdoutWrite("path", GeneratedMessage(locals.outputPath)),
             IoCall("open", "browser", locals.outputPath) >>
    /\ pc' = "open"
    /\ UNCHANGED <<call, ret, argv, parsedArgs, locals, templateCache, exitCode>>

OpenSucceeds ==
    /\ pc = "open"
    /\ pc' = "done"
    /\ UNCHANGED <<call, ret, argv, env, parsedArgs, locals, templateCache,
                   exitCode, events>>

\* The step as it would be if the failure of open were fatal.
OpenFails_fatal ==
    /\ pc = "open"
    /\ events' = Append(events, emitError(FailedToOpenMessage("spawn ENOENT")))
    /\ exitCode' = 1
    /\ pc' = "done"
    /\ UNCHANGED <<call, ret, argv, env, parsedArgs, locals, templateCache>>

\* open rejects: lines 243-245.
OpenFails ==
    /\ pc = "open"
    /\ events' = Append(events, emitWarning(FailedToOpenMessage("spawn ENOENT")))
    /\ pc' = "done"
    /\ UNCHANGED <<call, ret, argv, env, parsedArgs, locals, templateCache,
                   exitCode>>

Next ==
    \/ MainStart
    \/ ReadSourceFails
    \/ ReadSourceSucceeds
    \/ TemplateFails
    \/ TemplateLoadsToStdout
    \/ TemplateLoadsToFile
    \/ MkdtempFails
    \/ MkdtempSucceeds
    \/ WriteFileFails
    \/ WriteFileSucceedsNoOpenFlag
    \/ WriteFileSucceedsNoOpenEnv
    \/ WriteFileSucceedsOpen
    \/ OpenSucceeds
    \/ OpenFails

Spec == Init /\ [][Next]_vars


-----------------------------------------------------------------------------
(* Properties of a run of main.                                            *)

Done == pc = "done"

FileCalls == {"readFile", "mkdtemp", "writeFile"}

\* The kinds of the events of the run so far.
EventKinds == {events[i].kind : i \in 1..Len(events)}

NoFileTouched == EventKinds \cap FileCalls = {}

NoFileTouchedNorBrowser == EventKinds \cap (FileCalls \cup {"open"}) = {}

\* The lines of the error stream that emitError wrote.
ErrorLines ==
    {events[i].text : i \in {j \in 1..Len(events) :
        events[j].kind = "stderr" /\ events[j].text[1] = "Error: "}}

Mentions(line, piece) == \E i \in 1..Len(line) : line[i] = piece

\* The document of the run has been rendered.
Rendered == "htmlDocument" \in DOMAIN locals

\* The document of the run agrees with the theme and the preset P of the run:
\* under light the root rule gives the seven palette variables P's light
\* values and the hint is light, under dark P's dark values and dark, under
\* auto the hint is light dark; and the root rule declares as color-scheme
\* the one value handed to the template.
DocumentAgrees ==
    LET view == locals.htmlDocument.view
        root == RuleOf(view.styles, RootHeader)
        theme == parsedArgs.theme
        P == locals.preset
    IN  /\ P \in RegisteredPresets
        /\ theme = "light" =>
              /\ DeclaresPalette(root, RootIndent, P.palette.light)
              /\ view.colorScheme = "light"
        /\ theme = "dark" =>
              /\ DeclaresPalette(root, RootIndent, P.palette.dark)
              /\ view.colorScheme = "dark"
        /\ theme = "auto" => view.colorScheme = "light dark"
        /\ Declared(root, RootIndent, "color-scheme") = {view.colorScheme}

(* C3: once a run has rendered its document, for the registered preset P of *)
(* the run: under light the root rule gives the seven palette variables P's *)
(* light values and the hint is light, under dark it gives P's dark values  *)
(* and the hint is dark, under auto the hint is light dark; and the         *)
(* color-scheme the root rule declares is the one value handed to the       *)
(* template.                                                                *)
C3_ThemePaletteAndHint == Rendered => DocumentAgrees

\* A run under --style=inter-ui and dark has rendered its document.
C3_Witness ==
    /\ Rendered
    /\ parsedArgs.theme = "dark"
    /\ locals.preset = InterUi
    /\ locals.htmlDocument.view.colorScheme = "dark"
    /\ \E i \in 1..Len(locals.htmlDocument.view.styles) :
          locals.htmlDocument.view.styles[i]
              = "      --bg: " \o InterUi.palette.dark.background \o ";"

-----------------------------------------------------------------------------
(* The title, read line by line.                                           *)

\* The line is a level-1 heading: after blanks of its own, one "#", a
\* white-space character and at least one more character.
IsHeadingLine(line) ==
    LET t == TrimStart(line) IN
    /\ Len(t) >= 3
    /\ t[1] = "#"
    /\ IsSpace(t[2])

HeadingText(line) == Trim(Tail(TrimStart(line)))

\* The title as the sentence about lines gives it.
LineTitle(markdown, path) ==
    LET lines == Split(markdown, "\n")
        headings == {i \in 1..Len(lines) : IsHeadingLine(lines[i])}
        baseName == basename(path, extname(path))
    IN  IF headings # {} THEN HeadingText(lines[MinOf(headings)])
        ELSE IF baseName # <<>> THEN baseName
        ELSE DefaultTitle

(* C7: deriveTitle returns the trimmed text of the first line that is a     *)
(* level-1 heading (one "#", white space, then text on that same line),     *)
(* else the base name of the path without its extension, else the default   *)
(* title.                                                                   *)
C7_TitleOfFirstHeadingLine ==
    (call.op = "deriveTitle" /\ ret.done) =>
        ret.value = LineTitle(call.markdownContent, call.sourcePath)

-----------------------------------------------------------------------------
(* The argument list, read without running the parser.                     *)

\* The one-based places of the tokens that no --theme or --style before them
\* takes as its value.
RECURSIVE OptionPlacesFrom(_, _)
OptionPlacesFrom(args, i) ==
    IF i > Len(args) THEN {}
    ELSE {i} \cup OptionPlacesFrom(args,
                      IF args[i] \in {Opt_theme, Opt_style} THEN i + 2 ELSE i + 1)

OptionPlaces(args) == OptionPlacesFrom(args, 1)

KnownOptions ==
    { Opt_h, Opt_help, Opt_no_open, Opt_stdout, Opt_list_styles, Opt_dark,
      Opt_light, Opt_theme, Opt_style }

TakesInlineValue(token) ==
    StartsWith(token, Prefix_theme) \/ StartsWith(token, Prefix_style)

\* A token that begins with "--" and is no option of the help text.
UnrecognisedLongFlag(token) ==
    /\ StartsWith(token, Prefix_option)
    /\ token \notin KnownOptions
    /\ ~TakesInlineValue(token)

\* A token that begins with "-" and is no option of the help text.
UnrecognisedFlag(token) ==
    /\ StartsWith(token, <<"-">>)
    /\ token \notin KnownOptions
    /\ ~TakesInlineValue(token)

\* --theme or --style stands at place i with nothing, or an empty string,
\* after it.
ValueMissingAt(args, i) ==
    /\ args[i] \in {Opt_theme, Opt_style}
    /\ (i = Len(args) \/ args[i + 1] = <<>>)

ThemeNames == {Chars_light, Chars_dark, Chars_auto}

CatalogIds == {PRESETS[i].id : i \in 1..Len(PRESETS)}

\* The theme values the argument list supplies, as written: the token after
\* --theme, and the text after --theme=.
SuppliedThemeValues(args) ==
    {args[i + 1] : i \in {j \in OptionPlaces(args) :
                             args[j] = Opt_theme /\ j < Len(args)}}
    \cup {SubSeq(args[i], Len(Prefix_theme) + 1, Len(args[i])) :
             i \in {j \in OptionPlaces(args) : StartsWith(args[j], Prefix_theme)}}

\* The theme option at place i carries a value that is not empty and that,
\* in lower case, is none of the three names; of --theme=<value> the value
\* ends at a second "=".
ThemeRejectedAt(args, i) ==
    \/ /\ args[i] = Opt_theme
       /\ i < Len(args)
       /\ args[i + 1] # <<>>
       /\ ToLowerCase(args[i + 1]) \notin ThemeNames
    \/ /\ StartsWith(args[i], Prefix_theme)
       /\ Split(args[i], "=")[2] # <<>>
       /\ ToLowerCase(Split(args[i], "=")[2]) \notin ThemeNames

ArgumentFaultAt(args, i) ==
    \/ UnrecognisedLongFlag(args[i])
    \/ ValueMissingAt(args, i)
    \/ ThemeRejectedAt(args, i)

\* The first fault of the argument list is a rejected theme value.
ThemeRejectedFirst(args) ==
    \E i \in OptionPlaces(args) :
        /\ ThemeRejectedAt(args, i)
        /\ \A j \in OptionPlaces(args) : j < i => ~ArgumentFaultAt(args, j)

InvalidThemeReported ==
    \E line \in ErrorLines : Mentions(line, "Invalid theme value")

ListStylesHinted == \E line \in ErrorLines : Mentions(line, "--list-styles")

(* C8 as stated: whenever the arguments select a style id that is not in    *)
(* the catalog, the run ends with a non-zero exit status and an error       *)
(* message that mentions --list-styles.                                     *)
C8_UnknownStyleAlwaysFatal ==
    (Done /\ parsedArgs # Undefined
          /\ Str(parsedArgs.styleId) \notin CatalogIds) =>
        (exitCode # 0 /\ ListStylesHinted)

(* C8, amended: whenever the arguments parse, ask neither for the list of   *)
(* styles nor for help, name exactly one file and select a style id that is *)
(* not in the catalog, the run ends with a non-zero exit status and an      *)
(* error message that mentions --list-styles, and touches no file.          *)
C8_UnknownStyleFatal ==
    (Done /\ parsedArgs # Undefined
          /\ ~parsedArgs.listStyles
          /\ ~parsedArgs.showHelp
          /\ Len(parsedArgs.positional) = 1
          /\ Str(parsedArgs.styleId) \notin CatalogIds) =>
        (exitCode # 0 /\ ListStylesHinted /\ NoFileTouchedNorBrowser)

\* The run of: --style sideways notes.md
C8_Witness ==
    /\ Done
    /\ argv = <<Opt_style, Arg_sideways, Arg_file>>
    /\ parsedArgs # Undefined
    /\ parsedArgs.styleId = Arg_sideways
    /\ exitCode = 1
    /\ ListStylesHinted

(* C9 as stated: whenever the value supplied to the theme option (an empty  *)
(* one left aside) is not one of light, dark and auto, the run ends with a  *)
(* non-zero exit status and an Invalid theme value error, and reads and     *)
(* writes no file.                                                          *)
C9_OtherThemeValueAlwaysFatal ==
    (Done /\ \E v \in SuppliedThemeValues(argv) : v # <<>> /\ v \notin ThemeNames) =>
        (exitCode # 0 /\ InvalidThemeReported /\ NoFileTouched)

(* C9, amended: whenever the first argument the parser rejects is a theme   *)
(* option whose value (the token after --theme, or the text between         *)
(* --theme= and a second "=") is not empty and, letter case apart, is none  *)
(* of light, dark and auto, the run ends with a non-zero exit status and an *)
(* Invalid theme value error, and reads and writes no file.                 *)
C9_InvalidThemeFatal ==
    (Done /\ ThemeRejectedFirst(argv)) =>
        (exitCode # 0 /\ InvalidThemeReported /\ NoFileTouched)

\* The run of: notes.md --theme sideways
C9_Witness ==
    /\ Done
    /\ argv = <<Arg_file, Opt_theme, Arg_sideways>>
    /\ exitCode = 1
    /\ events = <<emitError(InvalidThemeMessage)>>

ArgumentErrorReported == exitCode # 0 /\ ErrorLines # {}

(* C10 as stated: an argument list that contains an unrecognised flag, or   *)
(* --theme or --style not followed by a value, makes the run fail with a    *)
(* non-zero exit status and an Error line on the error stream, before any   *)
(* file is read or written and before any browser launch.                   *)
C10_AnyBadFlagFatal ==
    (Done /\ \E i \in 1..Len(argv) :
                \/ UnrecognisedFlag(argv[i])
                \/ (argv[i] \in {Opt_theme, Opt_style} /\ i = Len(argv))) =>
        (ArgumentErrorReported /\ NoFileTouchedNorBrowser)

(* C10, amended: an argument list in which a token that no --theme or       *)
(* --style before it takes as its value either begins with "--" and is not  *)
(* a recognised option, or is --theme or --style with nothing or an empty   *)
(* string after it, makes the run fail with a non-zero exit status and an   *)
(* Error line on the error stream, before any file is read or written and   *)
(* before any browser launch.                                               *)
C10_BadOptionFatal ==
    (Done /\ \E i \in OptionPlaces(argv) :
                UnrecognisedLongFlag(argv[i]) \/ ValueMissingAt(argv, i)) =>
        (ArgumentErrorReported /\ NoFileTouchedNorBrowser)

\* The run of: notes.md --stdout --bogus
C10_Witness ==
    /\ Done
    /\ argv = <<Arg_file, Opt_stdout, Arg_bogus>>
    /\ exitCode = 1
    /\ events = <<emitError(UnknownOptionMessage(Arg_bogus))>>

-----------------------------------------------------------------------------
(* Properties of the output of a run.  The events of a run are only ever   *)
(* appended to and its arguments never change, so what the history of a    *)
(* run shows is read at the end of the run.                                *)

\* What the run has written to standard output so far, in order.
StdoutEvents == SelectSeq(events, LAMBDA e : e.kind = "stdout")

\* The arguments parsed and --stdout is among them.
StdoutMode == parsedArgs # Undefined /\ Opt_stdout \in parsedArgs.flags

\* readFile returned the Markdown source.
SourceRead == "markdownContent" \in DOMAIN locals

TemplateLoaded ==
    templateCache # Undefined /\ templateCache.state = "fulfilled"

\* No temporary directory or file was made and no browser launched.
NoTempFileNorBrowser ==
    \A j \in 1..Len(events) : events[j].kind \notin {"mkdtemp", "writeFile", "open"}

\* Standard output holds the whole document of the run and nothing else; the
\* document carries the body rendered from the source and the class of the
\* preset of the run.
WholeDocumentOnStdout ==
    /\ Rendered
    /\ StdoutEvents = <<StdoutWrite("html", locals.htmlDocument)>>
    /\ locals.htmlDocument.view.body = renderMarkdown(locals.markdownContent).htmlBody
    /\ locals.htmlDocument.view.bodyClass = "preset-" \o locals.preset.id

StdoutRequested == \E i \in 1..Len(argv) : argv[i] = Opt_stdout

\* The run ended with an error before renderMarkdown was reached.
FailedBeforeRendering ==
    Done /\ exitCode # 0 /\ "htmlBody" \notin DOMAIN locals

(* C12: in a run with --stdout that meets a fatal error before rendering    *)
(* (an argument error, a wrong number of positional arguments, an unknown   *)
(* style id, a source file that cannot be read), nothing at all is written  *)
(* to standard output.                                                      *)
C12_NothingOnStdoutAfterError ==
    (StdoutRequested /\ FailedBeforeRendering) => StdoutEvents = <<>>

\* What the code does instead: the usage text is the one thing such a run
\* can put on standard output, and it does so exactly for a wrong number of
\* positional arguments.
C12_OnlyUsageOnStdoutAfterError ==
    (StdoutRequested /\ FailedBeforeRendering) =>
        /\ StdoutEvents \in {<<>>, <<StdoutWrite("help", HELP_TEXT)>>}
        /\ StdoutEvents # <<>> <=>
              (parsedArgs # Undefined /\ Len(parsedArgs.positional) # 1)

-----------------------------------------------------------------------------
(* Help, the list of styles and the count of positional arguments.         *)

\* One of the tokens stands in the argument list at a place where no --theme
\* or --style before it takes it as its value.
GivenAsOption(args, tokens) == \E i \in OptionPlaces(args) : args[i] \in tokens

NoArgumentFault(args) == \A i \in OptionPlaces(args) : ~ArgumentFaultAt(args, i)

HelpOptions == {Opt_h, Opt_help}

\* The run printed the usage text and nothing else, touched no file,
\* launched no browser, and its exit status is 0.
OnlyUsagePrinted ==
    /\ events = <<StdoutWrite("help", HELP_TEXT)>>
    /\ exitCode = 0
    /\ locals = Undefined

(* C13 as stated: whenever -h or --help is among the arguments, the run     *)
(* prints the usage text to standard output and ends with status 0 without  *)
(* reading the source, rendering, writing a file or launching a browser.    *)
C13_HelpAlwaysWins ==
    (Done /\ \E i \in 1..Len(argv) : argv[i] \in HelpOptions) => OnlyUsagePrinted

(* C13, amended: whenever the arguments parse without error, -h or --help   *)
(* is among them at a place where it is not the value of a preceding        *)
(* --theme or --style, and --list-styles is not given, the run prints the   *)
(* usage text to standard output and ends with status 0 without reading the *)
(* source, rendering, writing a file or launching a browser.                *)
C13_HelpWins ==
    Done =>
        \/ OnlyUsagePrinted
        \/ ~( /\ GivenAsOption(argv, HelpOptions)
              /\ ~GivenAsOption(argv, {Opt_list_styles})
              /\ NoArgumentFault(argv) )

\* Help asked for beside two positional arguments: the usage text is all the
\* run gives.
C13_Witness ==
    /\ Done
    /\ Len(argv) = MaxArgs
    /\ GivenAsOption(argv, HelpOptions)
    /\ parsedArgs # Undefined
    /\ Len(parsedArgs.positional) = 2
    /\ OnlyUsagePrinted

\* The line of the list of styles for the preset at place i of the catalog:
\* its id, its label and its description.
CatalogLine ==
    [i \in 1..Len(PRESETS) |->
        "- " \o PRESETS[i].id \o ": " \o PRESETS[i].label
             \o " " \o EmDash \o " " \o PRESETS[i].description]

\* The run printed one line for each preset of the catalog, in the order of
\* the catalog, and nothing else; it touched no file, launched no browser,
\* and its exit status is 0.
OnlyStylesListed ==
    /\ Len(events) = 1
    /\ events[1].kind = "stdout"
    /\ LET lines == events[1].data IN
          /\ Len(lines) = Len(PRESETS) + 1
          /\ \A i \in 1..Len(PRESETS) : lines[i] = CatalogLine[i]
          /\ lines[Len(lines)] = ""
    /\ exitCode = 0
    /\ locals = Undefined

(* C14 as stated: whenever --list-styles is among the arguments of a run    *)
(* whose arguments parse, the run prints exactly one line for each preset   *)
(* of the catalog, in the order of registration, each with the id, the      *)
(* label and the description of its preset, and ends with status 0 without  *)
(* reading the source, rendering, writing a file or launching a browser,    *)
(* whatever the number of positional arguments and the selected style id.   *)
C14_ListStylesAnywhereWins ==
    ( /\ Done
      /\ parsedArgs # Undefined
      /\ \E i \in 1..Len(argv) : argv[i] = Opt_list_styles ) => OnlyStylesListed

(* C14, amended: the same, whenever --list-styles is among the arguments at *)
(* a place where it is not the value of a preceding --style.                *)
C14_ListStylesWins ==
    (Done /\ parsedArgs # Undefined) =>
        \/ OnlyStylesListed
        \/ ~GivenAsOption(argv, {Opt_list_styles})

\* The list asked for with a style id that is not in the catalog, no
\* positional argument, and help asked for as well.
C14_Witness ==
    /\ Done
    /\ parsedArgs # Undefined
    /\ GivenAsOption(argv, {Opt_list_styles})
    /\ GivenAsOption(argv, HelpOptions)
    /\ Str(parsedArgs.styleId) \notin CatalogIds
    /\ parsedArgs.positional = <<>>
    /\ OnlyStylesListed

\* The tokens that parseArguments would collect as positional arguments if it
\* read the whole list: those at an option place that are no option of the
\* help text, carry no inline value and do not begin with "--".
PositionalPlaces(args) ==
    {i \in OptionPlaces(args) :
        /\ args[i] \notin KnownOptions
        /\ ~TakesInlineValue(args[i])
        /\ ~StartsWith(args[i], Prefix_option)}

\* The event at place j is a call of readFile on the source.
IsSourceRead(j) == events[j].kind = "readFile" /\ events[j].what = "source"

SourceReadAttempted == \E j \in 1..Len(events) : IsSourceRead(j)

(* C15 as stated: a run whose argument list has no positional argument, or  *)
(* two or more, ends with a non-zero exit status and an error message and   *)
(* never reads a source file; the source file is read only in runs with     *)
(* exactly one positional argument.                                         *)
C15_PositionalCountAlwaysFatal ==
    Done =>
        /\ Cardinality(PositionalPlaces(argv)) # 1 =>
              (exitCode # 0 /\ ErrorLines # {} /\ ~SourceReadAttempted)
        /\ SourceReadAttempted => Cardinality(PositionalPlaces(argv)) = 1

(* C15, amended: a run whose arguments ask neither for help nor for the     *)
(* list of styles and whose argument list has no positional argument, or    *)
(* two or more, ends with a non-zero exit status and an error message; and  *)
(* in every run the source file is read only if there is exactly one        *)
(* positional argument, which is the file read.                             *)
C15_PositionalCountFatal ==
    Done =>
        /\ \/ (exitCode # 0 /\ ErrorLines # {} /\ ~SourceReadAttempted)
           \/ ~( /\ Cardinality(PositionalPlaces(argv)) # 1
                 /\ ~GivenAsOption(argv, HelpOptions \cup {Opt_list_styles}) )
        /\ SourceReadAttempted =>
              /\ Cardinality(PositionalPlaces(argv)) = 1
              /\ \E i \in PositionalPlaces(argv) :
                    \A j \in 1..Len(events) :
                        IsSourceRead(j) => events[j].path = resolve(argv[i])

\* Two files named, nothing else asked: the error of line 200.
C15_Witness ==
    /\ Done
    /\ Cardinality(PositionalPlaces(argv)) = 2
    /\ ~GivenAsOption(argv, HelpOptions \cup {Opt_list_styles})
    /\ ErrorLines = {<<"Error: ">> \o ExactlyOneMessage \o <<"\n">>}
    /\ exitCode = 1

-----------------------------------------------------------------------------
(* The launch of the browser.                                              *)

EventPlaces(kind) == {j \in 1..Len(events) : events[j].kind = kind}

Launched == \E j \in 1..Len(events) : events[j].kind = "open"

\* The event at place j is the line of standard output that gives the path
\* of the generated file.
IsPathPrint(j) == events[j].kind = "stdout" /\ events[j].what = "path"

PathPrinted == \E j \in 1..Len(events) : IsPathPrint(j)

\* MARKDOWN_RENDER_NO_OPEN was found unset, or set to the empty string.
NoOpenVariableUnsetOrEmpty ==
    env.MARKDOWN_RENDER_NO_OPEN \in {Undefined, [value |-> ""]}

\* The launch at place j comes after the call of writeFile that wrote the
\* document of the run to the file it opens, and after the line that gave
\* the path of that file.
LaunchedAfterWriteAndPrint(j) ==
    /\ \E w \in 1..(j - 1) :
          /\ events[w].kind = "writeFile"
          /\ events[w].path = events[j].path
          /\ events[w].what = locals.htmlDocument
    /\ \E p \in 1..(j - 1) :
          /\ IsPathPrint(p)
          /\ events[p].data = GeneratedMessage(events[j].path)

(* C16: the browser is launched in a run if and only if the document was    *)
(* written to a temporary file and its path printed (no --stdout),          *)
(* --no-open is absent and MARKDOWN_RENDER_NO_OPEN is unset or empty; it is *)
(* launched at most once, and only after the file has been written and its  *)
(* path printed to standard output.                                         *)
C16_BrowserLaunch ==
    Done =>
        /\ Launched <=>
              /\ PathPrinted
              /\ ~StdoutMode
              /\ Opt_no_open \notin parsedArgs.flags
              /\ NoOpenVariableUnsetOrEmpty
        /\ \A i, j \in 1..Len(events) :
              (events[i].kind = "open" /\ events[j].kind = "open") => i = j
        /\ \A j \in 1..Len(events) :
              events[j].kind = "open" => LaunchedAfterWriteAndPrint(j)

\* A launch with the variable set to the empty string.
C16_Witness ==
    /\ Done
    /\ Cardinality(EventPlaces("open")) = 1
    /\ env.MARKDOWN_RENDER_NO_OPEN = [value |-> ""]
    /\ \A j \in EventPlaces("open") : LaunchedAfterWriteAndPrint(j)

\* The launch was made and something came after it: open was rejected.
OpenFailed == \E j \in 1..(Len(events) - 1) : events[j].kind = "open"

\* What the run had done when it launched the browser is still all it has
\* done before the last event: its file calls and its output are the same,
\* the file written and the path printed among them.
NothingUndone ==
    LET j == Len(events) - 1 IN
        /\ events[j].kind = "open"
        /\ LaunchedAfterWriteAndPrint(j)
        /\ \A k \in 1..Len(events) :
              events[k].kind \in FileCalls => k < j

(* C17: if the launch of the browser fails, the run prints a line           *)
(* "Warning: <message>" to the error stream, its exit status stays 0, and   *)
(* the file written and the path printed are left as they were: nothing is  *)
(* deleted or rolled back.                                                  *)
C17_OpenFailureIsWarning ==
    (Done /\ OpenFailed) =>
        /\ events[Len(events)].kind = "stderr"
        /\ events[Len(events)].text[1] = "Warning: "
        /\ Mentions(events[Len(events)].text, "spawn ENOENT")
        /\ ErrorLines = {}
        /\ exitCode = 0
        /\ NothingUndone

\* The run whose launch failed.
C17_Witness ==
    /\ OpenFailed
    /\ events[Len(events)] = emitWarning(FailedToOpenMessage("spawn ENOENT"))
    /\ exitCode = 0

-----------------------------------------------------------------------------
(* parseArguments on its own: one call on one argument list.               *)

ParseTokens ==
    { Opt_help, Opt_stdout, Opt_list_styles, Opt_dark, Opt_light, Opt_theme,
      Opt_style,
      Prefix_theme \o <<"D", "A", "R", "K">>,
      Prefix_style \o Arg_inter,
      Arg_bogus, Arg_file, Arg_Light, Arg_inter }

ParseInputs == UNION {[1..n -> ParseTokens] : n \in 0..MaxArgs}

InitArgs ==
    /\ call \in {[op |-> "parseArguments", args |-> a] : a \in ParseInputs}
    /\ ret = Pending
    /\ argv = <<>>
    /\ env = [unread |-> TRUE]
    /\ pc = "lib"
    /\ parsedArgs = Undefined
    /\ locals = Undefined
    /\ templateCache = Undefined
    /\ exitCode = 0
    /\ events = <<>>

CallParseArguments ==
    /\ call.op = "parseArguments"
    /\ ret = Pending
    /\ ret' = Returned(parseArguments(call.args))
    /\ UNCHANGED <<call, runVars>>

NextArgs == CallParseArguments

SpecArgs == InitArgs /\ [][NextArgs]_vars

\* The argument list cut into its units: a --theme or a --style together
\* with the token after it, and every other token alone.
RECURSIVE UnitsFrom(_, _)
UnitsFrom(args, i) ==
    IF i > Len(args) THEN <<>>
    ELSE IF args[i] \in {Opt_theme, Opt_style} /\ i < Len(args)
         THEN <<SubSeq(args, i, i + 1)>> \o UnitsFrom(args, i + 2)
         ELSE <<SubSeq(args, i, i)>> \o UnitsFrom(args, i + 1)

Units(args) == UnitsFrom(args, 1)

\* Every --theme and every --style of the list has a token after it.
EveryFlagHasItsValue(units) ==
    \A k \in 1..Len(units) :
        units[k][1] \in {Opt_theme, Opt_style} => Len(units[k]) = 2

IsPositionalUnit(unit) ==
    /\ unit[1] \notin KnownOptions
    /\ ~TakesInlineValue(unit[1])
    /\ ~StartsWith(unit[1], Prefix_option)

SetsTheme(unit) ==
    unit[1] \in {Opt_dark, Opt_light, Opt_theme} \/ StartsWith(unit[1], Prefix_theme)

SetsStyle(unit) ==
    unit[1] = Opt_style \/ StartsWith(unit[1], Prefix_style)

\* The orders of n units in which the positional ones stay in their order:
\* place a of the new list holds the unit of place order[a] of the old one.
Reorderings(units) ==
    {order \in [1..Len(units) -> 1..Len(units)] :
        /\ \A a, b \in 1..Len(units) : a # b => order[a] # order[b]
        /\ \A a, b \in 1..Len(units) :
              (a < b /\ IsPositionalUnit(units[order[a]])
                     /\ IsPositionalUnit(units[order[b]])) => order[a] < order[b]}

RECURSIVE Flatten(_)
Flatten(seqs) == IF seqs = <<>> THEN <<>> ELSE Head(seqs) \o Flatten(Tail(seqs))

Reordered(units, order) == Flatten([a \in 1..Len(units) |-> units[order[a]]])

\* The call of parseArguments has returned, on a list that parses and in
\* which every --theme and --style has its value.
ParsedWholeUnits ==
    /\ call.op = "parseArguments"
    /\ ret # Pending
    /\ ret.value.ok
    /\ EveryFlagHasItsValue(Units(call.args))

(* C18 as stated: a reordering of the argument tokens that keeps each       *)
(* --theme and --style immediately followed by its value and keeps the      *)
(* positional tokens in their relative order gives the same parsed result:  *)
(* theme, style id, flags, help, list-styles, positional list.              *)
C18_AnyOrderSameResult ==
    ParsedWholeUnits =>
        \A order \in Reorderings(Units(call.args)) :
            parseArguments(Reordered(Units(call.args), order)) = ret.value

(* C18, amended: such a reordering gives the same parsed result when at     *)
(* most one option of the list sets the theme and at most one sets the      *)
(* style id; whatever the options, it gives the same flags, help flag,      *)
(* list-styles flag and positional list, and a theme and a style id that    *)
(* are those of the last option that sets them.                             *)
C18_OrderIndependentButLastWins ==
    ParsedWholeUnits =>
        LET units == Units(call.args)
            themeSetters == {k \in 1..Len(units) : SetsTheme(units[k])}
            styleSetters == {k \in 1..Len(units) : SetsStyle(units[k])}
        IN
        \A order \in Reorderings(units) :
            LET again == parseArguments(Reordered(units, order))
                lastOf(setters) ==
                    {order[a] : a \in {b \in 1..Len(units) :
                        /\ order[b] \in setters
                        /\ \A c \in 1..Len(units) : order[c] \in setters => c <= b}}
            IN
            /\ again.ok
            /\ again.value.positional = ret.value.value.positional
            /\ again.value.flags = ret.value.value.flags
            /\ again.value.showHelp = ret.value.value.showHelp
            /\ again.value.listStyles = ret.value.value.listStyles
            /\ lastOf(themeSetters) \subseteq {k \in themeSetters : \A m \in themeSetters : m <= k}
                  => again.value.theme = ret.value.value.theme
            /\ lastOf(styleSetters) \subseteq {k \in styleSetters : \A m \in styleSetters : m <= k}
                  => again.value.styleId = ret.value.value.styleId
            /\ (Cardinality(themeSetters) <= 1 /\ Cardinality(styleSetters) <= 1)
                  => again = ret.value

\* A list with a --theme or --style and its value beside a positional
\* argument: it has two orders, and both parse alike.
C18_Witness ==
    /\ ParsedWholeUnits
    /\ Len(call.args) = MaxArgs
    /\ Cardinality(Reorderings(Units(call.args))) > 1
    /\ \E k \in 1..Len(Units(call.args)) : Len(Units(call.args)[k]) = 2
    /\ \E k \in 1..Len(Units(call.args)) : IsPositionalUnit(Units(call.args)[k])
    /\ \A order \in Reorderings(Units(call.args)) :
          parseArguments(Reordered(Units(call.args), order)) = ret.value

-----------------------------------------------------------------------------
(* loadTemplate on its own: several calls in one process, while the        *)
(* template file may be missing, be there, and change.                     *)

MaxLoads == 4

\* Another content the template file may come to hold.
TemplateTextEdited == "document.mustache, edited"

\* What is on disk at TEMPLATE_PATH: nothing that can be read, or a content.
TemplateFiles ==
    {Undefined, [value |-> TemplateText], [value |-> TemplateTextEdited]}

\* locals holds the file on disk; ret holds, for each call made, what the
\* caller that awaits the returned promise has received so far.
InitTemplate ==
    /\ call = [op |-> "loadTemplate", calls |-> 0]
    /\ ret = <<>>
    /\ argv = <<>>
    /\ env = [unread |-> TRUE]
    /\ pc = "lib"
    /\ parsedArgs = Undefined
    /\ locals \in {[templateFile |-> f] : f \in TemplateFiles}
    /\ templateCache = Undefined
    /\ exitCode = 0
    /\ events = <<>>

\* One call of loadTemplate: lines 429-435.
CallLoadTemplate ==
    /\ call.op = "loadTemplate"
    /\ call.calls < MaxLoads
    /\ call' = [call EXCEPT !.calls = @ + 1]
    /\ templateCache' = loadTemplateCache(templateCache)
    /\ events' = events \o loadTemplateEvents(templateCache)
    /\ ret' = Append(ret, Pending)
    /\ UNCHANGED <<argv, env, pc, parsedArgs, locals, exitCode>>

\* The read that line 431 started settles: it resolves with the content of
\* the file, or rejects when the file cannot be read.
TemplateReadSettles ==
    /\ call.op = "loadTemplate"
    /\ templateCache # Undefined
    /\ templateCache.state = "pending"
    /\ templateCache' =
          IF locals.templateFile = Undefined
          THEN [state |-> "rejected"]
          ELSE [state |-> "fulfilled", value |-> locals.templateFile.value]
    /\ UNCHANGED <<call, ret, argv, env, pc, parsedArgs, locals, exitCode, events>>

\* The caller of the i-th call, awaiting the promise it was handed, resumes
\* with what the promise settled to.
AwaitLoadTemplate ==
    /\ call.op = "loadTemplate"
    /\ templateCache # Undefined
    /\ templateCache.state # "pending"
    /\ \E i \in 1..Len(ret) :
          /\ ret[i] = Pending
          /\ ret' = [ret EXCEPT ![i] = Returned(templateCache)]
    /\ UNCHANGED <<call, argv, env, pc, parsedArgs, locals, templateCache,
                   exitCode, events>>

\* The file on disk changes under the process.
TemplateFileChanges ==
    /\ call.op = "loadTemplate"
    /\ \E f \in TemplateFiles \ {locals.templateFile} :
          locals' = [templateFile |-> f]
    /\ UNCHANGED <<call, ret, argv, env, pc, parsedArgs, templateCache,
                   exitCode, events>>

NextTemplate ==
    \/ CallLoadTemplate
    \/ TemplateReadSettles
    \/ AwaitLoadTemplate
    \/ TemplateFileChanges

SpecTemplate == InitTemplate /\ [][NextTemplate]_vars

TemplateReads ==
    {j \in EventPlaces("readFile") : events[j].what = "template"}

Settled == templateCache # Undefined /\ templateCache.state # "pending"

(* C19: over any sequence of calls of loadTemplate in one process, the      *)
(* cache is set at most once, the value it holds is the result of a         *)
(* successful read of the template file (the first successful read wins),   *)
(* and every call after that read returns the same content without reading  *)
(* the file again.                                                          *)
C19_FirstSuccessfulReadWins ==
    /\ Cardinality(TemplateReads) <= 1
    /\ Settled => templateCache.state = "fulfilled"
    /\ \A i \in 1..Len(ret) :
          ret[i] # Pending =>
              /\ ret[i].value.state = "fulfilled"
              /\ ret[i].value = templateCache

\* What the code does instead: the first read wins, successful or not.  The
\* file is read once, at the first call, and every caller receives what that
\* read settled to, a rejection included, whatever the file holds by then.
C19_FirstReadWins ==
    /\ Cardinality(TemplateReads) = (IF call.calls = 0 THEN 0 ELSE 1)
    /\ \A i \in 1..Len(ret) :
          ret[i] # Pending => ret[i].value = templateCache

\* Once settled the cache never changes.
C19_SettledCacheIsKept ==
    [][Settled => templateCache' = templateCache]_vars

\* A later call is handed the rejection of the first read although the file
\* can be read by then.
C19_RejectionReused ==
    /\ Settled
    /\ templateCache.state = "rejected"
    /\ locals.templateFile # Undefined
    /\ call.calls >= 2
    /\ ret[call.calls] = Returned(templateCache)

-----------------------------------------------------------------------------
(* renderMarkdown and renderHtmlDocument on their own: lines 224-226 of    *)
(* main on one Markdown source.                                            *)

MaxChunks == 5

\* The pieces the sources are made of.
MermaidChunks ==
    {MermaidFence, FenceEnd, <<"\n">>, <<"x">>, <<" ">>, <<"<">>}

MermaidInputs ==
    {Flatten(chunks) : chunks \in UNION {[1..n -> MermaidChunks] : n \in 0..MaxChunks}}

InitRender ==
    /\ call \in {[op |-> "renderDocument", markdownContent |-> md,
                  sourcePath |-> Arg_file] : md \in MermaidInputs}
    /\ ret = Pending
    /\ argv = <<>>
    /\ env = [unread |-> TRUE]
    /\ pc = "lib"
    /\ parsedArgs = Undefined
    /\ locals = Undefined
    /\ templateCache = Undefined
    /\ exitCode = 0
    /\ events = <<>>

\* Lines 224-226 with the default preset and theme: what Mustache.render is
\* handed for the source.
CallRenderDocument ==
    /\ call.op = "renderDocument"
    /\ ret = Pending
    /\ LET rendered == renderMarkdown(call.markdownContent)
           title == deriveTitle(call.markdownContent, call.sourcePath)
       IN  ret' = Returned(renderHtmlDocument(TemplateText,
                      [title |-> title, body |-> rendered.htmlBody,
                       theme |-> InitialArgs.theme],
                      resolvePreset(Str(DEFAULT_STYLE_ID)),
                      [mermaidDetected |-> rendered.mermaidDetected]))
    /\ UNCHANGED <<call, runVars>>

NextRender == CallRenderDocument

SpecRender == InitRender /\ [][NextRender]_vars

\* Fenced code blocks, read line by line as Markdown defines them.  A fence
\* opens on a line of at most three spaces, three or more backquotes and an
\* info string without backquote; the label of the block is the first word of
\* the info string.  The block ends before the next line of at most three
\* spaces, at least as many backquotes and nothing but spaces, or with the
\* source.
RECURSIVE LeadingRun(_, _)
LeadingRun(line, c) ==
    IF line # <<>> /\ Head(line) = c THEN 1 + LeadingRun(Tail(line), c) ELSE 0

AfterIndent(line) == SubSeq(line, LeadingRun(line, " ") + 1, Len(line))

FenceLength(line) == LeadingRun(AfterIndent(line), Backquote)

InfoString(line) ==
    SubSeq(AfterIndent(line), FenceLength(line) + 1, Len(AfterIndent(line)))

FirstWord(cs) ==
    LET text == Trim(cs)
        stops == {i \in 1..Len(text) : IsSpace(text[i])}
    IN  IF stops = {} THEN text ELSE SubSeq(text, 1, MinOf(stops) - 1)

OpensFence(line) ==
    /\ LeadingRun(line, " ") <= 3
    /\ FenceLength(line) >= 3
    /\ \A i \in 1..Len(InfoString(line)) : InfoString(line)[i] # Backquote

ClosesFence(line, length) ==
    /\ LeadingRun(line, " ") <= 3
    /\ FenceLength(line) >= length
    /\ \A i \in 1..Len(InfoString(line)) : InfoString(line)[i] = " "

\* The blocks of the lines from line i on; open is the fence that is open at
\* line i, or Undefined.  A block is its label and its first and last line.
RECURSIVE FencedBlocksFrom(_, _, _)
FencedBlocksFrom(lines, i, open) ==
    IF i > Len(lines)
    THEN IF open = Undefined THEN {}
         ELSE {[label |-> open.label, first |-> open.at + 1, last |-> Len(lines)]}
    ELSE IF open = Undefined
    THEN IF OpensFence(lines[i])
         THEN FencedBlocksFrom(lines, i + 1,
                  [at |-> i, length |-> FenceLength(lines[i]),
                   label |-> FirstWord(InfoString(lines[i]))])
         ELSE FencedBlocksFrom(lines, i + 1, Undefined)
    ELSE IF ClosesFence(lines[i], open.length)
    THEN {[label |-> open.label, first |-> open.at + 1, last |-> i - 1]}
             \cup FencedBlocksFrom(lines, i + 1, Undefined)
    ELSE FencedBlocksFrom(lines, i + 1, open)

MermaidLabel == <<"m", "e", "r", "m", "a", "i", "d">>

MermaidBlocks(md) ==
    {b \in FencedBlocksFrom(Split(md, "\n"), 1, Undefined) : b.label = MermaidLabel}

RECURSIVE JoinLines(_, _, _)
JoinLines(lines, first, last) ==
    IF first > last THEN <<>>
    ELSE IF first = last THEN lines[first]
    ELSE lines[first] \o <<"\n">> \o JoinLines(lines, first + 1, last)

\* The div that stands for a diagram: its text escaped, white space at its
\* ends left aside.
MermaidDiv(text) ==
    Tail(MermaidDivOpen) \o escapeHtml(Trim(text))
        \o SubSeq(MermaidDivClose, 1, Len(MermaidDivClose) - 1)

Contains(s, word) == \E p \in 1..(Len(s) + 1) : HasAt(s, p, word)

(* C20: the Mermaid snippets for the head and for the body that the         *)
(* template is handed are both empty or both non-empty; they are non-empty  *)
(* if and only if the source has a fenced code block labelled mermaid; and  *)
(* the text handed to the Markdown parser has, for each such block, a div   *)
(* of class mermaid that holds the escaped text of the diagram.             *)
C20_MermaidScriptsIffFencedBlock ==
    (call.op = "renderDocument" /\ ret # Pending) =>
        LET view == ret.value.view
            md == call.markdownContent
            lines == Split(md, "\n")
        IN
        /\ view.headScripts = "" <=> view.bodyScripts = ""
        /\ view.headScripts # "" <=> MermaidBlocks(md) # {}
        /\ \A b \in MermaidBlocks(md) :
              Contains(view.body.marked, MermaidDiv(JoinLines(lines, b.first, b.last)))

\* What holds: the two snippets go together, and they are there exactly when
\* the expression of renderMarkdown matched somewhere in the source.
C20_ScriptsGoTogether ==
    (call.op = "renderDocument" /\ ret # Pending) =>
        LET view == ret.value.view
            matched == \E p \in 1..Len(call.markdownContent) :
                          MermaidClosers(call.markdownContent, p) # {}
        IN
        /\ view.headScripts = MermaidHeadScript <=> matched
        /\ view.bodyScripts = MermaidBodyScript <=> matched
        /\ view.headScripts = "" <=> ~matched
        /\ view.bodyScripts = "" <=> ~matched

\* A block labelled mermaidx is given the div and the snippets.
C20_OtherLabelTaken ==
    /\ call.op = "renderDocument"
    /\ ret # Pending
    /\ call.markdownContent = MermaidFence \o <<"x", "\n">> \o FenceEnd
    /\ MermaidBlocks(call.markdownContent) = {}
    /\ ret.value.view.headScripts = MermaidHeadScript
    /\ Contains(ret.value.view.body.marked, MermaidDiv(<<"x">>))

\* A block labelled mermaid and closed by its fence is given the div and the
\* snippets: on such a source the code and the claim agree.
C20_ClosedBlockReplaced ==
    /\ call.op = "renderDocument"
    /\ ret # Pending
    /\ call.markdownContent = MermaidFence \o <<"\n", "<", "\n">> \o FenceEnd
    /\ Cardinality(MermaidBlocks(call.markdownContent)) = 1
    /\ ret.value.view.headScripts = MermaidHeadScript
    /\ ret.value.view.bodyScripts = MermaidBodyScript
    /\ Contains(ret.value.view.body.marked, MermaidDiv(<<"<">>))

-----------------------------------------------------------------------------
(* The exit status of a run.                                               *)

IsWarningLine(e) == e.kind = "stderr" /\ e.text[1] = "Warning: "

\* The step wrote a line "Warning: ..." to the error stream.
WarningWritten ==
    \E j \in (Len(events) + 1)..Len(events') : IsWarningLine(events'[j])

HtmlOnStdout ==
    \E j \in 1..Len(events) : events[j].kind = "stdout" /\ events[j].what = "html"

\* At its end a run has a non-zero exit status exactly when it wrote a line
\* "Error: ..."; with a non-zero status it put no document on standard
\* output and launched no browser.
ExitStatusTellsErrors ==
    Done =>
        /\ exitCode # 0 <=> ErrorLines # {}
        /\ exitCode # 0 => (~HtmlOnStdout /\ ~Launched)

(* C21: in every run that has ended, the exit status is non-zero if and     *)
(* only if a line "Error: ..." was written to the error stream; a step that *)
(* writes a line "Warning: ..." leaves the exit status as it was; and a run *)
(* that ends with a non-zero status has put no HTML document on standard    *)
(* output and launched no browser.                                          *)
C21_ExitStatusAndErrorLines ==
    /\ []ExitStatusTellsErrors
    /\ [][WarningWritten => exitCode' = exitCode]_vars

\* A run that failed after it had read its source, --stdout given: an error
\* line, status 1, and nothing on standard output.
C21_Witness ==
    /\ Done
    /\ StdoutMode
    /\ SourceRead
    /\ exitCode = 1
    /\ ErrorLines # {}
    /\ StdoutEvents = <<>>

-----------------------------------------------------------------------------
(* The title is never blank.                                                *)

IsBlank(cs) == \A t \in 1..Len(cs) : IsSpace(cs[t])

TitleReturned == call.op = "deriveTitle" /\ ret # Pending

(* C22: deriveTitle never returns an empty or whitespace-only string: for   *)
(* every Markdown content and every source path the title it returns has at *)
(* least one character that is not white space.                             *)
C22_TitleNeverBlank ==
    TitleReturned => ~IsBlank(ret.value)

\* The heading line "#" followed by two spaces: \s+ gives one space back to
\* the group, the group is " " and the title returned is the empty string,
\* although the path has a file name.
C22_BlankHeadingGivesEmptyTitle ==
    /\ TitleReturned
    /\ call.markdownContent = <<"#", " ", " ">>
    /\ call.sourcePath = <<"/", "n", ".", "m", "d">>
    /\ ret.value = <<>>

\* A blank title comes from a heading match only: without a match the title
\* is the file name or the default.
C22_BlankOnlyFromHeading ==
    (TitleReturned /\ IsBlank(ret.value)) =>
        /\ H1Matches(call.markdownContent) # {}
        /\ IsBlank(H1Group(call.markdownContent))
====
